---- MODULE Spec2Model ----
(***************************************************************************)
(* Model of the Scheme interpreter of src/lisp_2.py: the frame model       *)
(* (class Frames), closures (class Functions), the builtin table and the   *)
(* recursive evaluator evaluate(tree, frame), the tokenizer and the parser, *)
(* and the read-eval-print loop repl().                                    *)
(*                                                                         *)
(* The heap is explicit: frames, closures and pairs are Python objects, so *)
(* they live in the sequences `frames`, `funcs` and `pairs` and are        *)
(* referred to by their index, in order of construction.  Index 0 as a     *)
(* parent stands for the module-level dictionary                           *)
(* scheme_builtins, which is the parent of every frame built by Frames().  *)
(* evaluate is a state-passing recursive operator; every return of         *)
(* evaluate is recorded in `trace` (tree, frame, call depth, value or      *)
(* exception), which is what makes evaluation order observable.            *)
(***************************************************************************)
EXTENDS Integers, Sequences, FiniteSets, TLC

VARIABLES frames, funcs, pairs, builtins, trace, steps, tokens, parsed,
          source, status, output

vars == <<frames, funcs, pairs, builtins, trace, steps, tokens, parsed,
          source, status, output>>

\* number of top-level evaluate() calls explored
MaxSteps == 2

(***************************************************************************)
(* Expression trees (the output of parse): numbers, symbols, lists.        *)
(* Every field has one type in all variants, so that any two trees can be  *)
(* compared.                                                               *)
(***************************************************************************)
Num(i) == [k |-> "num", n |-> i, s |-> "", l |-> <<>>]
Sym(a) == [k |-> "sym", n |-> 0, s |-> a, l |-> <<>>]
Lst(q) == [k |-> "list", n |-> 0, s |-> "", l |-> q]

(***************************************************************************)
(* number_or_symbol and parse.  A token is a string.  int() is modelled on *)
(* the tokens of the vocabulary that it accepts: the decimal numerals,     *)
(* with the optional sign and the leading zeros that int() allows.  Every  *)
(* other token of the vocabulary is rejected by int() and by float().      *)
(* Indices are those of the code (the first token has index 0).            *)
(***************************************************************************)
IntLiteral ==
  ("2" :> 2) @@ ("02" :> 2) @@ ("+2" :> 2) @@ ("5" :> 5) @@ ("3" :> 3)
  @@ ("0" :> 0) @@ ("1" :> 1) @@ ("4" :> 4)

number_or_symbol(value) ==
  IF value \in DOMAIN IntLiteral THEN Num(IntLiteral[value]) ELSE Sym(value)

Parsed(tree, next) == [tree |-> tree, next |-> next, err |-> "none"]
ParseError(e) == [tree |-> Sym(""), next |-> 0, err |-> e]

\* the value of `parsed` before parse has been called
NotParsed == ParseError("unset")

RECURSIVE parse_expression(_, _)
RECURSIVE parse_items(_, _, _)

\* a parser that puts every sub-expression in front of the earlier ones
parse_items_prepend(toks, curr_index, expression_list) ==
  IF toks[curr_index + 1] = ")"
  THEN Parsed(Lst(expression_list), curr_index + 1)
  ELSE LET r == parse_expression(toks, curr_index)
       IN IF r.err # "none" THEN r
          ELSE IF r.next > Len(toks) - 1 THEN ParseError("SchemeSyntaxError")
          ELSE parse_items(toks, r.next, <<r.tree>> \o expression_list)

\* the loop while tokens[curr_index] != ")" of parse_expression; on entry
\* curr_index <= num_char - 1
parse_items(toks, curr_index, expression_list) ==
  IF toks[curr_index + 1] = ")"
  THEN Parsed(Lst(expression_list), curr_index + 1)
  ELSE LET r == parse_expression(toks, curr_index)
       IN IF r.err # "none" THEN r
          ELSE IF r.next > Len(toks) - 1 THEN ParseError("SchemeSyntaxError")
          ELSE parse_items(toks, r.next, Append(expression_list, r.tree))

parse_expression(toks, index) ==
  IF index > Len(toks) - 1 THEN ParseError("IndexError")
  ELSE LET token == number_or_symbol(toks[index + 1])
       IN IF token.k = "num" THEN Parsed(token, index + 1)
          ELSE IF token.s = "("
               THEN IF index + 1 > Len(toks) - 1
                    THEN ParseError("SchemeSyntaxError")
                    ELSE parse_items(toks, index + 1, <<>>)
          ELSE IF token.s = ")" THEN ParseError("SchemeSyntaxError")
          ELSE Parsed(token, index + 1)

parse(toks) ==
  LET r == parse_expression(toks, 0)
  IN IF r.err # "none" THEN r
     ELSE IF r.next < Len(toks) THEN ParseError("SchemeSyntaxError")
     ELSE r

(***************************************************************************)
(* tokenize.  A source text is the sequence of its characters, each a      *)
(* string of length one; a token is a string.                              *)
(***************************************************************************)
\* the characters at which str.splitlines() ends a line and the characters
\* that str.split() treats as separators, among those of the source texts
LineBreaks == {"\n"}
Whitespace == {" ", "\n", "\t"}

\* the index of the first c in chars, 0 when there is none
IndexOf(chars, c) ==
  LET hits == {i \in 1..Len(chars) : chars[i] = c}
  IN IF hits = {} THEN 0 ELSE CHOOSE i \in hits : \A j \in hits : i <= j

\* source.splitlines(): the text before each line break and the text after
\* the last one when it is not empty
RECURSIVE splitlines(_)
splitlines(src) ==
  LET hits == {i \in 1..Len(src) : src[i] \in LineBreaks}
      i == CHOOSE i \in hits : \A j \in hits : i <= j
  IN IF src = <<>> THEN <<>>
     ELSE IF hits = {} THEN <<src>>
     ELSE <<SubSeq(src, 1, i - 1)>> \o splitlines(SubSeq(src, i + 1, Len(src)))

\* line.partition(sep)
partition(line, sep) ==
  LET i == IndexOf(line, sep)
  IN IF i = 0 THEN [before |-> line, sep |-> <<>>, after |-> <<>>]
     ELSE [before |-> SubSeq(line, 1, i - 1), sep |-> <<sep>>,
           after |-> SubSeq(line, i + 1, Len(line))]

\* chars.replace(old, " " + old + " ")
RECURSIVE replace_spaced(_, _)
replace_spaced(chars, old) ==
  IF chars = <<>> THEN <<>>
  ELSE (IF Head(chars) = old THEN <<" ", old, " ">> ELSE <<Head(chars)>>)
       \o replace_spaced(Tail(chars), old)

\* chars.split(): the maximal runs of characters that are not whitespace;
\* word is the run read so far
RECURSIVE split(_, _)
split(chars, word) ==
  IF chars = <<>> THEN (IF word = "" THEN <<>> ELSE <<word>>)
  ELSE IF Head(chars) \in Whitespace
       THEN (IF word = "" THEN <<>> ELSE <<word>>) \o split(Tail(chars), "")
       ELSE split(Tail(chars), word \o Head(chars))

IsClosing(c) == c = ")"

\* a line whose comment gives back one ")" for every ")" that it holds
tokenize_line_every(line) ==
  LET p == partition(line, ";")
      closing == SelectSeq(p.after, IsClosing)
      expression == p.before \o closing
  IN split(replace_spaced(replace_spaced(expression, "("), ")"), "")

\* the body of the loop of tokenize for one line
tokenize_line(line) ==
  LET p == partition(line, ";")
      expression == IF IndexOf(p.after, ")") # 0 THEN Append(p.before, ")")
                    ELSE p.before
  IN split(replace_spaced(replace_spaced(expression, "("), ")"), "")

\* return_list.extend(...) for every line, in order
RECURSIVE tokenize_lines(_)
tokenize_lines(line_list) ==
  IF line_list = <<>> THEN <<>>
  ELSE tokenize_line(Head(line_list)) \o tokenize_lines(Tail(line_list))

tokenize(src) == tokenize_lines(splitlines(src))

(***************************************************************************)
(* Run-time values: Python int, bool, None, Functions instance (index into *)
(* funcs), builtin function (its name in scheme_builtins), Pair instance   *)
(* (index into pairs) and float (the quotient p/q in lowest terms, q > 0). *)
(***************************************************************************)
NumV(i) == [k |-> "num", n |-> i, s |-> ""]
BoolV(b) == [k |-> "bool", n |-> IF b THEN 1 ELSE 0, s |-> ""]
NilV == [k |-> "nil", n |-> 0, s |-> ""]
FnV(i) == [k |-> "fn", n |-> i, s |-> ""]
NativeV(a) == [k |-> "native", n |-> 0, s |-> a]
PairV(i) == [k |-> "pair", n |-> i, s |-> ""]
FloatV(p, q) == [k |-> "float", n |-> p, s |-> "", d |-> q]

\* Python truth value of a run-time value: 0, False and None are falsy
Truthy(v) == IF v.k \in {"num", "bool", "float"} THEN v.n # 0 ELSE v.k # "nil"

\* callable(): Functions defines __call__, builtin functions are callable
callable(v) == v.k \in {"fn", "native"}

\* int and bool take part in arithmetic and ordering (bool is an int); the
\* arithmetic of floats is outside the model, so a float has no case here
IsNumber(v) ==
  CASE v.k \in {"num", "bool"} -> TRUE
    [] v.k \in {"nil", "fn", "native", "pair"} -> FALSE

EmptyDict == [m \in {} |-> NilV]
DictSet(d, key, v) == [m \in (DOMAIN d) \cup {key} |-> IF m = key THEN v ELSE d[m]]
DictPop(d, key) == [m \in (DOMAIN d) \ {key} |-> d[m]]

BuiltinNames ==
  {"+", "-", "*", "/", "#t", "#f", "equal?", ">", ">=", "<", "<=", "not",
   "cons", "car", "cdr", "list", "list?", "length", "list-ref", "append",
   "map", "filter", "reduce", "begin"}

scheme_builtins ==
  [a \in BuiltinNames |->
     IF a = "#t" THEN BoolV(TRUE)
     ELSE IF a = "#f" THEN BoolV(FALSE)
     ELSE NativeV(a)]

(***************************************************************************)
(* The store threaded through evaluation, with the value returned or the   *)
(* exception raised by the last call.  err = "none" means a normal return. *)
(***************************************************************************)
Ok(s, v) == [s EXCEPT !.val = v, !.err = "none"]
Raise(s, e) == [s EXCEPT !.val = NilV, !.err = e]

SchemeErrors == {"SchemeSyntaxError", "SchemeNameError", "SchemeEvaluationError"}

(***************************************************************************)
(* class Frames                                                            *)
(***************************************************************************)
\* Frames(grandparent): the new frame is the last one of the heap
Frames_init(s, grandparent) ==
  [s EXCEPT !.frames = Append(@, [parent |-> grandparent, children |-> EmptyDict])]

\* a lookup that tries the local bindings and then the builtin table only
Frames_getitem_local(s, f, var) ==
  IF var \in DOMAIN s.frames[f].children
    THEN Ok(s, s.frames[f].children[var])
    ELSE IF var \in DOMAIN s.builtins
      THEN Ok(s, s.builtins[var])
      ELSE Raise(s, "SchemeNameError")

RECURSIVE Frames_getitem(_, _, _)
Frames_getitem(s, f, var) ==
  IF var \in DOMAIN s.frames[f].children
    THEN Ok(s, s.frames[f].children[var])
    ELSE IF s.frames[f].parent # 0
      THEN Frames_getitem(s, s.frames[f].parent, var)
      ELSE IF var \in DOMAIN s.builtins
        THEN Ok(s, s.builtins[var])
        ELSE Raise(s, "SchemeNameError")

\* a __setitem__ that also makes the frame a child of the builtin table
Frames_setitem_reparent(s, f, var, v) ==
  [s EXCEPT !.frames[f].children = DictSet(@, var, v), !.frames[f].parent = 0]

\* a __setitem__ that overwrites the parent's binding when only the parent
\* binds the name
Frames_setitem_up(s, f, var, v) ==
  LET p == s.frames[f].parent IN
  IF var \notin DOMAIN s.frames[f].children /\ p # 0
     /\ var \in DOMAIN s.frames[p].children
    THEN [s EXCEPT !.frames[p].children[var] = v]
    ELSE [s EXCEPT !.frames[f].children = DictSet(@, var, v)]

Frames_setitem(s, f, var, v) ==
  [s EXCEPT !.frames[f].children = DictSet(@, var, v)]

\* a set_parent that always writes the local bindings
set_parent_local(s, f, var, v) ==
  Ok([s EXCEPT !.frames[f].children = DictSet(@, var, v)], NilV)

\* a set_parent that treats the builtin table as one more frame
RECURSIVE set_parent_builtins(_, _, _, _)
set_parent_builtins(s, f, var, v) ==
  IF var \in DOMAIN s.frames[f].children
    THEN Ok([s EXCEPT !.frames[f].children[var] = v], NilV)
    ELSE IF s.frames[f].parent # 0
      THEN set_parent_builtins(s, s.frames[f].parent, var, v)
      ELSE IF var \in DOMAIN s.builtins
        THEN Ok([s EXCEPT !.builtins[var] = v], NilV)
        ELSE Raise(s, "SchemeNameError")

RECURSIVE set_parent(_, _, _, _)
set_parent(s, f, var, v) ==
  IF var \in DOMAIN s.frames[f].children
    THEN Ok([s EXCEPT !.frames[f].children[var] = v], NilV)
    ELSE IF s.frames[f].parent # 0
      THEN set_parent(s, s.frames[f].parent, var, v)
      ELSE Raise(s, "SchemeNameError")

(***************************************************************************)
(* Builtin functions                                                       *)
(***************************************************************************)
RECURSIVE SumN(_)
SumN(args) == IF args = <<>> THEN 0 ELSE Head(args).n + SumN(Tail(args))

RECURSIVE ProdN(_)
ProdN(args) == IF args = <<>> THEN 1 ELSE Head(args).n * ProdN(Tail(args))

AllNumbers(args) == \A i \in 1..Len(args) : IsNumber(args[i])

add(args, s) ==
  IF AllNumbers(args) THEN Ok(s, NumV(SumN(args))) ELSE Raise(s, "TypeError")

sub(args, s) ==
  IF Len(args) = 0 THEN Raise(s, "IndexError")
  ELSE IF ~AllNumbers(args) THEN Raise(s, "TypeError")
  ELSE IF Len(args) = 1 THEN Ok(s, NumV(0 - args[1].n))
  ELSE Ok(s, NumV(args[1].n - SumN(Tail(args))))

mul(args, s) ==
  IF AllNumbers(args) THEN Ok(s, NumV(ProdN(args))) ELSE Raise(s, "TypeError")

\* hash/== key of a value inside a Python set: True == 1, objects by identity
SetKey(v) ==
  IF v.k = "float" THEN (IF v.d = 1 THEN NumV(v.n) ELSE v)
  ELSE IF IsNumber(v) THEN NumV(v.n) ELSE v

equal(args, s) ==
  Ok(s, BoolV(Cardinality({SetKey(args[i]) : i \in 1..Len(args)}) = 1))

\* comparing a value that is not a number raises TypeError; the loop runs
\* over every adjacent pair, so it raises whenever there are two arguments
\* or more and one is not a number
greater(args, s) ==
  IF Len(args) >= 2 /\ ~AllNumbers(args) THEN Raise(s, "TypeError")
  ELSE Ok(s, BoolV(\A i \in 1..(Len(args) - 1) : ~(args[i].n <= args[i + 1].n)))

ge(args, s) ==
  IF Len(args) >= 2 /\ ~AllNumbers(args) THEN Raise(s, "TypeError")
  ELSE Ok(s, BoolV(\A i \in 1..(Len(args) - 1) : ~(args[i].n < args[i + 1].n)))

less(args, s) ==
  IF Len(args) >= 2 /\ ~AllNumbers(args) THEN Raise(s, "TypeError")
  ELSE Ok(s, BoolV(\A i \in 1..(Len(args) - 1) : ~(args[i].n >= args[i + 1].n)))

le(args, s) ==
  IF Len(args) >= 2 /\ ~AllNumbers(args) THEN Raise(s, "TypeError")
  ELSE Ok(s, BoolV(\A i \in 1..(Len(args) - 1) : ~(args[i].n > args[i + 1].n)))

not_func(args, s) ==
  IF Len(args) # 1 THEN Raise(s, "SchemeEvaluationError")
  ELSE Ok(s, BoolV(~Truthy(args[1])))

begin(args, s) ==
  IF Len(args) = 0 THEN Raise(s, "IndexError") ELSE Ok(s, args[Len(args)])

\* int, bool and float are the operands of true division
IsNumeric(v) == v.k \in {"num", "bool", "float"}
Numer(v) == v.n
Denom(v) == IF v.k = "float" THEN v.d ELSE 1

Abs(i) == IF i < 0 THEN 0 - i ELSE i

RECURSIVE Gcd(_, _)
Gcd(i, j) == IF j = 0 THEN i ELSE Gcd(j, i % j)

\* the float p / q, q # 0
Quotient(p, q) ==
  LET g == Gcd(Abs(p), Abs(q))
      sg == IF q < 0 THEN 0 - 1 ELSE 1
  IN FloatV((sg * p) \div g, (sg * q) \div g)

\* result / num in Python: a TypeError for an operand that is not a number,
\* a ZeroDivisionError for a zero divisor
TrueDiv(s, result, num) ==
  IF ~IsNumeric(result) \/ ~IsNumeric(num) THEN Raise(s, "TypeError")
  ELSE IF Numer(num) = 0 THEN Raise(s, "ZeroDivisionError")
  ELSE Ok(s, Quotient(Numer(result) * Denom(num), Denom(result) * Numer(num)))

\* for num in args[1:]: result /= num
RECURSIVE div_loop(_, _, _)
div_loop(s, result, rest) ==
  IF rest = <<>> THEN Ok(s, result)
  ELSE LET r == TrueDiv(s, result, Head(rest))
       IN IF r.err # "none" THEN r ELSE div_loop(s, r.val, Tail(rest))

div(args, s) ==
  IF Len(args) = 0 THEN Raise(s, "ValueError")
  ELSE IF Len(args) = 1 THEN TrueDiv(s, NumV(1), args[1])
  ELSE div_loop(s, args[1], Tail(args))

\* Pair(car, cdr): the new object is the last of the heap
Pair_init(s, car, cdr) ==
  [s EXCEPT !.pairs = Append(@, [car |-> car, cdr |-> cdr])]

cons(args, s) ==
  IF Len(args) # 2 THEN Raise(s, "SchemeEvaluationError")
  ELSE LET s1 == Pair_init(s, args[1], args[2])
       IN Ok(s1, PairV(Len(s1.pairs)))

car(args, s) ==
  IF Len(args) # 1 \/ args[1].k # "pair" THEN Raise(s, "SchemeEvaluationError")
  ELSE Ok(s, s.pairs[args[1].n].car)

cdr(args, s) ==
  IF Len(args) # 1 \/ args[1].k # "pair" THEN Raise(s, "SchemeEvaluationError")
  ELSE Ok(s, s.pairs[args[1].n].cdr)

\* Pair(args[0], list_func(args[1:])): the rest of the list is built first
RECURSIVE list_func(_, _)
list_func(args, s) ==
  IF args = <<>> THEN Ok(s, NilV)
  ELSE LET r == list_func(Tail(args), s)
           s1 == Pair_init(r, Head(args), r.val)
       IN Ok(s1, PairV(Len(s1.pairs)))

\* a check that looks at the first cell only
IsList_shallow(ps, v) == v.k \in {"nil", "pair"}

\* check_list([v]) on the heap ps: None, or a Pair whose cdr is a list
RECURSIVE IsList(_, _)
IsList(ps, v) ==
  IF v.k = "nil" THEN TRUE
  ELSE IF v.k # "pair" THEN FALSE
  ELSE IsList(ps, ps[v.n].cdr)

check_list(args, s) ==
  IF Len(args) = 0 THEN Raise(s, "IndexError")
  ELSE Ok(s, BoolV(IsList(s.pairs, args[1])))

\* the count of len_list([v]) for a list v
RECURSIVE ListLen(_, _)
ListLen(ps, v) == IF v.k = "nil" THEN 0 ELSE 1 + ListLen(ps, ps[v.n].cdr)

len_list(args, s) ==
  IF Len(args) = 0 THEN Raise(s, "IndexError")
  ELSE IF ~IsList(s.pairs, args[1]) THEN Raise(s, "SchemeEvaluationError")
  ELSE Ok(s, NumV(ListLen(s.pairs, args[1])))

\* for i in range(index): current = current.cdr
RECURSIVE Advance(_, _, _)
Advance(ps, current, i) ==
  IF i <= 0 THEN current ELSE Advance(ps, ps[current.n].cdr, i - 1)

list_index(args, s) ==
  IF Len(args) < 2 THEN Raise(s, "IndexError")
  ELSE LET current == args[1]
           index == args[2]
       IN IF ~IsList(s.pairs, current) /\ current.k = "pair"
          THEN IF IsNumeric(index) /\ Numer(index) = 0
               THEN Ok(s, s.pairs[current.n].car)
               ELSE Raise(s, "SchemeEvaluationError")
          ELSE IF ~IsList(s.pairs, current) THEN Raise(s, "SchemeEvaluationError")
          ELSE IF ~IsNumber(index) THEN Raise(s, "TypeError")
          ELSE IF index.n >= ListLen(s.pairs, current)
               THEN Raise(s, "SchemeEvaluationError")
          ELSE LET cell == Advance(s.pairs, current, index.n)
               IN IF cell.k = "nil" THEN Raise(s, "AttributeError")
                  ELSE Ok(s, s.pairs[cell.n].car)

\* the inner loop of list_append: one new Pair for every element of current,
\* linked behind tail; st is the store with the local variables head and tail
RECURSIVE append_copy(_, _)
append_copy(current, st) ==
  IF current.k = "nil" THEN st
  ELSE LET s1 == Pair_init(st.s, st.s.pairs[current.n].car, NilV)
           new == PairV(Len(s1.pairs))
           next == st.s.pairs[current.n].cdr
       IN IF st.head.k = "nil"
          THEN append_copy(next, [s |-> s1, head |-> new, tail |-> new])
          ELSE append_copy(next,
                 [s |-> [s1 EXCEPT !.pairs[st.tail.n].cdr = new],
                  head |-> st.head, tail |-> new])

RECURSIVE append_args(_, _)
append_args(args, st) ==
  IF args = <<>> THEN Ok(st.s, st.head)
  ELSE IF ~IsList(st.s.pairs, Head(args))
       THEN Raise(st.s, "SchemeEvaluationError")
  ELSE append_args(Tail(args), append_copy(Head(args), st))

\* an append that copies the second and later lists and links the copy
\* behind the last cell of the first list
list_append_inplace(args, s) ==
  IF args = <<>> THEN Ok(s, NilV)
  ELSE IF ~IsList(s.pairs, Head(args)) THEN Raise(s, "SchemeEvaluationError")
  ELSE LET r == append_args(Tail(args), [s |-> s, head |-> NilV, tail |-> NilV])
       IN IF r.err # "none" \/ Head(args).k = "nil" THEN r
          ELSE LET last == Advance(s.pairs, Head(args),
                                   ListLen(s.pairs, Head(args)) - 1)
               IN Ok([r EXCEPT !.pairs[last.n].cdr = r.val], Head(args))

\* an append that copies every list but the last and links the last one in
list_append_share(args, s) ==
  IF args = <<>> THEN Ok(s, NilV)
  ELSE IF \E i \in 1..Len(args) : ~IsList(s.pairs, args[i])
       THEN Raise(s, "SchemeEvaluationError")
  ELSE LET r == append_args(SubSeq(args, 1, Len(args) - 1),
                            [s |-> s, head |-> NilV, tail |-> NilV])
           last == args[Len(args)]
       IN IF r.val.k = "nil" THEN Ok(r, last)
          ELSE LET sp == CHOOSE i \in 1..Len(r.pairs) :
                           /\ i > Len(s.pairs)
                           /\ r.pairs[i].cdr.k = "nil"
               IN Ok([r EXCEPT !.pairs[sp].cdr = last], r.val)

list_append(args, s) ==
  append_args(args, [s |-> s, head |-> NilV, tail |-> NilV])

(***************************************************************************)
(* class Functions and evaluate                                            *)
(***************************************************************************)
\* the loop frame.children[self.param[i]] = value: a repeated name keeps the
\* last value
BindParams(param, args) ==
  [m \in {param[i].s : i \in 1..Len(param)} |->
     LET last == CHOOSE i \in 1..Len(param) :
                   /\ param[i].s = m
                   /\ \A j \in 1..Len(param) : param[j].s = m => j <= i
     IN args[last]]

\* what one return of evaluate leaves in the trace
TraceEntry(tree, f, d, r) ==
  [tree |-> tree, frame |-> f, depth |-> d, val |-> r.val, err |-> r.err]

RECURSIVE evaluate(_, _, _, _)
RECURSIVE evaluate_list(_, _, _, _)
RECURSIVE evaluate_and(_, _, _, _)
RECURSIVE evaluate_or(_, _, _, _)
RECURSIVE evaluate_let_bindings(_, _, _, _)

\* a __call__ that builds no frame: binds the parameters in the captured
\* frame and runs the body there
Functions_call_captured(c, args, s, d) ==
  LET fn == s.funcs[c] IN
  IF Len(args) # Len(fn.param) THEN Raise(s, "SchemeEvaluationError")
  ELSE LET frame == fn.frame
           s2 == [s EXCEPT !.frames[frame].children =
                    BindParams(fn.param, args) @@ @]
       IN evaluate(fn.body, frame, s2, d + 1)

\* a __call__ without the argument-count test: binds the parameters that have
\* an argument and runs the body
Functions_call_nocheck(c, args, s, d) ==
  LET fn == s.funcs[c]
      m == IF Len(args) < Len(fn.param) THEN Len(args) ELSE Len(fn.param)
      s1 == Frames_init(s, fn.frame)
      frame == Len(s1.frames)
      s2 == [s1 EXCEPT !.frames[frame].children =
               BindParams(SubSeq(fn.param, 1, m), SubSeq(args, 1, m))]
  IN evaluate(fn.body, frame, s2, d + 1)

\* Functions.__call__(self, args), self = s.funcs[c]
Functions_call(c, args, s, d) ==
  LET fn == s.funcs[c] IN
  IF Len(args) # Len(fn.param) THEN Raise(s, "SchemeEvaluationError")
  ELSE LET s1 == Frames_init(s, fn.frame)
           frame == Len(s1.frames)
           s2 == [s1 EXCEPT !.frames[frame].children = BindParams(fn.param, args)]
       IN evaluate(fn.body, frame, s2, d + 1)

\* func(args) for a callable value func: a Functions instance or a function
\* of scheme_builtins
RECURSIVE CallBuiltin(_, _, _, _)
call(func, args, s, d) ==
  IF func.k = "fn" THEN Functions_call(func.n, args, s, d)
  ELSE CallBuiltin(func.s, args, s, d)

\* a map loop that visits the elements from the last to the first
RECURSIVE map_loop_backwards(_, _, _, _, _, _, _)
map_loop_backwards(func, LL, i, n, result, s, d) ==
  IF i >= n THEN Ok(s, result)
  ELSE LET current == list_index(<<LL, NumV(n - 1 - i)>>, s) IN
       IF current.err # "none" THEN current
       ELSE LET r == call(func, <<current.val>>, current, d) IN
            IF r.err # "none" THEN r
            ELSE LET s1 == Pair_init(r, r.val, NilV)
                     r2 == list_append(<<PairV(Len(s1.pairs)), result>>, s1)
                 IN IF r2.err # "none" THEN r2
                    ELSE map_loop_backwards(func, LL, i + 1, n, r2.val, r2, d)

\* the loop of map_func, for i in range(n) from i on: result so far is result
RECURSIVE map_loop(_, _, _, _, _, _, _)
map_loop(func, LL, i, n, result, s, d) ==
  IF i >= n THEN Ok(s, result)
  ELSE LET current == list_index(<<LL, NumV(i)>>, s) IN
       IF current.err # "none" THEN current
       ELSE LET r == call(func, <<current.val>>, current, d) IN
            IF r.err # "none" THEN r
            ELSE LET s1 == Pair_init(r, r.val, NilV)
                     r2 == list_append(<<result, PairV(Len(s1.pairs))>>, s1)
                 IN IF r2.err # "none" THEN r2
                    ELSE map_loop(func, LL, i + 1, n, r2.val, r2, d)

map_func(args, s, d) ==
  IF Len(args) < 2 THEN Raise(s, "IndexError")
  ELSE LET func == args[1]
           LL == args[2]
       IN IF ~callable(func) \/ ~IsList(s.pairs, LL)
          THEN Raise(s, "SchemeEvaluationError")
          ELSE map_loop(func, LL, 0, ListLen(s.pairs, LL), NilV, s, d)

\* the loop of filter_func
RECURSIVE filter_loop(_, _, _, _, _, _, _)
filter_loop(func, LL, i, n, result, s, d) ==
  IF i >= n THEN Ok(s, result)
  ELSE LET current == list_index(<<LL, NumV(i)>>, s) IN
       IF current.err # "none" THEN current
       ELSE LET r == call(func, <<current.val>>, current, d) IN
            IF r.err # "none" THEN r
            ELSE IF ~Truthy(r.val)
                 THEN filter_loop(func, LL, i + 1, n, result, r, d)
            ELSE LET s1 == Pair_init(r, current.val, NilV)
                     r2 == list_append(<<result, PairV(Len(s1.pairs))>>, s1)
                 IN IF r2.err # "none" THEN r2
                    ELSE filter_loop(func, LL, i + 1, n, r2.val, r2, d)

filter_func(args, s, d) ==
  IF Len(args) < 2 THEN Raise(s, "IndexError")
  ELSE LET func == args[1]
           LL == args[2]
       IN IF ~callable(func) \/ ~IsList(s.pairs, LL)
          THEN Raise(s, "SchemeEvaluationError")
          ELSE filter_loop(func, LL, 0, ListLen(s.pairs, LL), NilV, s, d)

\* the loop of reduce_func
RECURSIVE reduce_loop(_, _, _, _, _, _, _)
reduce_loop(func, LL, i, n, initial, s, d) ==
  IF i >= n THEN Ok(s, initial)
  ELSE LET current == list_index(<<LL, NumV(i)>>, s) IN
       IF current.err # "none" THEN current
       ELSE LET r == call(func, <<initial, current.val>>, current, d) IN
            IF r.err # "none" THEN r
            ELSE reduce_loop(func, LL, i + 1, n, r.val, r, d)

reduce_func(args, s, d) ==
  IF Len(args) < 3 THEN Raise(s, "IndexError")
  ELSE LET func == args[1]
           LL == args[2]
           initial == args[3]
       IN IF ~callable(func) \/ ~IsList(s.pairs, LL)
          THEN Raise(s, "SchemeEvaluationError")
          ELSE reduce_loop(func, LL, 0, ListLen(s.pairs, LL), initial, s, d)

\* the call maybe_func(args) when maybe_func is a function of scheme_builtins;
\* d is the depth of the evaluate call that makes it
CallBuiltin(a, args, s, d) ==
  CASE a = "+" -> add(args, s)
    [] a = "-" -> sub(args, s)
    [] a = "*" -> mul(args, s)
    [] a = "equal?" -> equal(args, s)
    [] a = ">" -> greater(args, s)
    [] a = ">=" -> ge(args, s)
    [] a = "<" -> less(args, s)
    [] a = "<=" -> le(args, s)
    [] a = "not" -> not_func(args, s)
    [] a = "begin" -> begin(args, s)
    [] a = "/" -> div(args, s)
    [] a = "cons" -> cons(args, s)
    [] a = "car" -> car(args, s)
    [] a = "cdr" -> cdr(args, s)
    [] a = "list" -> list_func(args, s)
    [] a = "list?" -> check_list(args, s)
    [] a = "length" -> len_list(args, s)
    [] a = "list-ref" -> list_index(args, s)
    [] a = "append" -> list_append(args, s)
    [] a = "map" -> map_func(args, s, d)
    [] a = "filter" -> filter_func(args, s, d)
    [] a = "reduce" -> reduce_func(args, s, d)

\* [evaluate(subtree, frame) for subtree in trees], left to right
evaluate_list(trees, f, s, d) ==
  IF trees = <<>> THEN [r |-> Ok(s, NilV), vals |-> <<>>]
  ELSE LET r1 == evaluate(Head(trees), f, s, d) IN
       IF r1.err # "none" THEN [r |-> r1, vals |-> <<>>]
       ELSE LET rest == evaluate_list(Tail(trees), f, r1, d)
            IN [r |-> rest.r, vals |-> <<r1.val>> \o rest.vals]

\* a define whose closure captures a copy of the frame as it is when the
\* closure is created
evaluate_define_snapshot(tree, f, s, d) ==
  LET t == tree.l IN
  IF Len(t) < 2 THEN Raise(s, "IndexError")
  ELSE IF t[2].k = "sym" THEN
    IF Len(t) < 3 THEN Raise(s, "IndexError")
    ELSE LET r == evaluate(t[3], f, s, d + 1) IN
         IF r.err # "none" THEN r
         ELSE Ok(Frames_setitem(r, f, t[2].s, r.val), r.val)
  ELSE IF t[2].k = "list" THEN
    IF Len(t) < 3 \/ Len(t[2].l) = 0 THEN Raise(s, "IndexError")
    ELSE LET s0 == [s EXCEPT !.frames = Append(@, s.frames[f])]
             s1 == [s0 EXCEPT !.funcs =
                      Append(@, [body |-> t[3], param |-> Tail(t[2].l),
                                 frame |-> Len(s0.frames)])]
             current_func == FnV(Len(s1.funcs))
         IN Ok(Frames_setitem(s1, f, t[2].l[1].s, current_func), current_func)
  ELSE Raise(s, "SchemeSyntaxError")

\* a define that evaluates the value expression before it looks at the target
evaluate_define_eval(tree, f, s, d) ==
  LET t == tree.l IN
  IF Len(t) < 2 THEN Raise(s, "IndexError")
  ELSE IF Len(t) < 3 THEN Raise(s, "IndexError")
  ELSE LET r == evaluate(t[3], f, s, d + 1) IN
       IF t[2].k = "sym" THEN
         IF r.err # "none" THEN r
         ELSE Ok(Frames_setitem(r, f, t[2].s, r.val), r.val)
       ELSE IF t[2].k = "list" THEN
         IF Len(t[2].l) = 0 THEN Raise(s, "IndexError")
         ELSE LET s1 == [s EXCEPT !.funcs =
                           Append(@, [body |-> t[3], param |-> Tail(t[2].l), frame |-> f])]
                  current_func == FnV(Len(s1.funcs))
              IN Ok(Frames_setitem(s1, f, t[2].l[1].s, current_func), current_func)
       ELSE IF r.err # "none" THEN r ELSE Raise(r, "SchemeSyntaxError")

\* tree[0] == "define"
evaluate_define(tree, f, s, d) ==
  LET t == tree.l IN
  IF Len(t) < 2 THEN Raise(s, "IndexError")
  ELSE IF t[2].k = "sym" THEN
    IF Len(t) < 3 THEN Raise(s, "IndexError")
    ELSE LET r == evaluate(t[3], f, s, d + 1) IN
         IF r.err # "none" THEN r
         ELSE Ok(Frames_setitem(r, f, t[2].s, r.val), r.val)
  ELSE IF t[2].k = "list" THEN
    IF Len(t) < 3 \/ Len(t[2].l) = 0 THEN Raise(s, "IndexError")
    ELSE LET s1 == [s EXCEPT !.funcs =
                      Append(@, [body |-> t[3], param |-> Tail(t[2].l), frame |-> f])]
             current_func == FnV(Len(s1.funcs))
         IN Ok(Frames_setitem(s1, f, t[2].l[1].s, current_func), current_func)
  ELSE Raise(s, "SchemeSyntaxError")

\* tree[0] == "lambda"; the parameter list of a lambda is a list of symbols
evaluate_lambda(tree, f, s, d) ==
  LET t == tree.l IN
  IF Len(t) < 3 THEN Raise(s, "IndexError")
  ELSE CASE t[2].k = "list" ->
         LET s1 == [s EXCEPT !.funcs =
                      Append(@, [body |-> t[3], param |-> t[2].l, frame |-> f])]
         IN Ok(s1, FnV(Len(s1.funcs)))

\* an if that evaluates both branches before it selects one
evaluate_if_eager(tree, f, s, d) ==
  LET t == tree.l
      r == evaluate(t[2], f, s, d + 1)
      r1 == evaluate(t[3], f, r, d + 1)
      r2 == evaluate(t[4], f, r1, d + 1)
  IN IF r.err # "none" THEN r
     ELSE IF r1.err # "none" THEN r1
     ELSE IF r2.err # "none" THEN r2
     ELSE Ok(r2, IF Truthy(r.val) THEN r1.val ELSE r2.val)

\* tree[0] == "if"
evaluate_if(tree, f, s, d) ==
  LET t == tree.l IN
  IF Len(t) < 2 THEN Raise(s, "IndexError")
  ELSE LET r == evaluate(t[2], f, s, d + 1) IN
       IF r.err # "none" THEN r
       ELSE IF Truthy(r.val)
         THEN IF Len(t) < 3 THEN Raise(r, "IndexError") ELSE evaluate(t[3], f, r, d + 1)
         ELSE IF Len(t) < 4 THEN Raise(r, "IndexError") ELSE evaluate(t[4], f, r, d + 1)

\* an and that evaluates every operand before it answers
evaluate_and_eager(items, f, s, d) ==
  LET a == evaluate_list(items, f, s, d + 1) IN
  IF a.r.err # "none" THEN a.r
  ELSE Ok(a.r, BoolV(\A i \in 1..Len(a.vals) : Truthy(a.vals[i])))

\* tree[0] == "and": the loop over tree[1:]
evaluate_and(items, f, s, d) ==
  IF items = <<>> THEN Ok(s, BoolV(TRUE))
  ELSE LET r == evaluate(Head(items), f, s, d + 1) IN
       IF r.err # "none" THEN r
       ELSE IF ~Truthy(r.val) THEN Ok(r, BoolV(FALSE))
       ELSE evaluate_and(Tail(items), f, r, d)

\* tree[0] == "or": the loop over tree[1:]
evaluate_or(items, f, s, d) ==
  IF items = <<>> THEN Ok(s, BoolV(FALSE))
  ELSE LET r == evaluate(Head(items), f, s, d + 1) IN
       IF r.err # "none" THEN r
       ELSE IF Truthy(r.val) THEN Ok(r, BoolV(TRUE))
       ELSE evaluate_or(Tail(items), f, r, d)

\* a del that removes the nearest binding of the parent chain
RECURSIVE evaluate_del_chain(_, _, _, _)
evaluate_del_chain(tree, f, s, d) ==
  LET var == tree.l[2].s IN
  IF var \in DOMAIN s.frames[f].children
    THEN Ok([s EXCEPT !.frames[f].children = DictPop(@, var)],
            s.frames[f].children[var])
    ELSE IF s.frames[f].parent # 0
      THEN evaluate_del_chain(tree, s.frames[f].parent, s, d)
      ELSE Raise(s, "SchemeNameError")

\* tree[0] == "del"
evaluate_del(tree, f, s, d) ==
  LET t == tree.l IN
  IF Len(t) < 2 THEN Raise(s, "IndexError")
  ELSE IF t[2].k = "list" THEN Raise(s, "TypeError")
  ELSE IF t[2].k # "sym" \/ t[2].s \notin DOMAIN s.frames[f].children
    THEN Raise(s, "SchemeNameError")
  ELSE Ok([s EXCEPT !.frames[f].children = DictPop(@, t[2].s)],
          s.frames[f].children[t[2].s])

\* a let whose value expressions are evaluated in the enclosing frame
RECURSIVE evaluate_let_bindings_outer(_, _, _, _)
evaluate_let_bindings_outer(exps, new_frame, s, d) ==
  IF exps = <<>> THEN Ok(s, NilV)
  ELSE LET exp == Head(exps)
           r == evaluate(exp.l[2], s.frames[new_frame].parent, s, d + 1)
       IN IF r.err # "none" THEN r
          ELSE evaluate_let_bindings_outer(Tail(exps), new_frame,
                 Frames_setitem(r, new_frame, exp.l[1].s, r.val), d)

\* the loop of "let" over the bindings tree[1]; each binding is a list
\* (name value-expression)
evaluate_let_bindings(exps, new_frame, s, d) ==
  IF exps = <<>> THEN Ok(s, NilV)
  ELSE LET exp == Head(exps) IN
       IF Len(exp.l) < 2 THEN Raise(s, "IndexError")
       ELSE LET r == evaluate(exp.l[2], new_frame, s, d + 1) IN
            IF r.err # "none" THEN r
            ELSE evaluate_let_bindings(Tail(exps), new_frame,
                                       Frames_setitem(r, new_frame, exp.l[1].s, r.val), d)

\* tree[0] == "let"
evaluate_let(tree, f, s, d) ==
  LET t == tree.l
      s1 == Frames_init(s, f)
      new_frame == Len(s1.frames)
  IN IF Len(t) < 2 THEN Raise(s1, "IndexError")
     ELSE CASE t[2].k = "list" ->
       LET r == evaluate_let_bindings(t[2].l, new_frame, s1, d) IN
       IF r.err # "none" THEN r
       ELSE IF Len(t) < 3 THEN Raise(r, "IndexError")
       ELSE evaluate(t[3], new_frame, r, d + 1)

\* tree[0] == "set!"
evaluate_set(tree, f, s, d) ==
  LET t == tree.l IN
  IF Len(t) < 3 THEN Raise(s, "IndexError")
  ELSE LET r == evaluate(t[3], f, s, d + 1) IN
       IF r.err # "none" THEN r
       ELSE IF t[2].k = "list" THEN Raise(r, "TypeError")
       ELSE IF t[2].k = "num" THEN Raise(r, "SchemeNameError")
       ELSE LET r2 == set_parent(r, f, t[2].s, r.val) IN
            IF r2.err # "none" THEN r2 ELSE Ok(r2, r.val)

\* a procedure application with dynamic scoping: the frame of the call is a
\* child of the caller's frame
evaluate_call_dynamic(tree, f, s, d) ==
  LET t == tree.l
      r0 == evaluate(t[1], f, s, d + 1)
  IN IF r0.err # "none" THEN r0
     ELSE IF ~callable(r0.val) THEN Raise(r0, "SchemeEvaluationError")
     ELSE LET a == evaluate_list(Tail(t), f, r0, d + 1) IN
          IF a.r.err # "none" THEN a.r
          ELSE IF r0.val.k = "fn" THEN
            LET fn == a.r.funcs[r0.val.n] IN
            IF Len(a.vals) # Len(fn.param) THEN Raise(a.r, "SchemeEvaluationError")
            ELSE LET s1 == Frames_init(a.r, f)
                     frame == Len(s1.frames)
                     s2 == [s1 EXCEPT !.frames[frame].children =
                              BindParams(fn.param, a.vals)]
                 IN evaluate(fn.body, frame, s2, d + 1)
          ELSE CallBuiltin(r0.val.s, a.vals, a.r, d)

\* a procedure application that evaluates the arguments before it tests
\* whether the head is callable
evaluate_call_eager(tree, f, s, d) ==
  LET t == tree.l
      r0 == evaluate(t[1], f, s, d + 1)
  IN IF r0.err # "none" THEN r0
     ELSE LET a == evaluate_list(Tail(t), f, r0, d + 1) IN
          IF a.r.err # "none" THEN a.r
          ELSE IF ~callable(r0.val) THEN Raise(a.r, "SchemeEvaluationError")
          ELSE IF r0.val.k = "fn" THEN Functions_call(r0.val.n, a.vals, a.r, d)
          ELSE CallBuiltin(r0.val.s, a.vals, a.r, d)

\* the default case: procedure application
evaluate_call(tree, f, s, d) ==
  LET t == tree.l
      r0 == evaluate(t[1], f, s, d + 1)
  IN IF r0.err # "none" THEN r0
     ELSE IF ~callable(r0.val) THEN Raise(r0, "SchemeEvaluationError")
     ELSE LET a == evaluate_list(Tail(t), f, r0, d + 1) IN
          IF a.r.err # "none" THEN a.r
          ELSE IF r0.val.k = "fn" THEN Functions_call(r0.val.n, a.vals, a.r, d)
          ELSE CallBuiltin(r0.val.s, a.vals, a.r, d)

\* a dispatch for which nil is the empty list only while no frame binds it
evaluate_dispatch_nil_bound(tree, f, s, d) ==
  IF tree.k = "sym" /\ tree.s = "nil"
     /\ Frames_getitem(s, f, "nil").err # "none" THEN Ok(s, NilV)
  ELSE IF tree.k = "sym" THEN Frames_getitem(s, f, tree.s)
  ELSE IF tree.k = "num" THEN Ok(s, NumV(tree.n))
  ELSE IF tree.k = "list" /\ Len(tree.l) > 0 THEN
    LET head == tree.l[1] IN
    IF head = Sym("define") THEN evaluate_define(tree, f, s, d)
    ELSE IF head = Sym("lambda") THEN evaluate_lambda(tree, f, s, d)
    ELSE IF head = Sym("if") THEN evaluate_if(tree, f, s, d)
    ELSE IF head = Sym("and") THEN evaluate_and(Tail(tree.l), f, s, d)
    ELSE IF head = Sym("or") THEN evaluate_or(Tail(tree.l), f, s, d)
    ELSE IF head = Sym("del") THEN evaluate_del(tree, f, s, d)
    ELSE IF head = Sym("let") THEN evaluate_let(tree, f, s, d)
    ELSE IF head = Sym("set!") THEN evaluate_set(tree, f, s, d)
    ELSE evaluate_call(tree, f, s, d)
  ELSE Raise(s, "SchemeEvaluationError")

\* a dispatch that applies the binding of the head when the head is a name
\* that some frame binds, and looks at the keywords only after that
evaluate_dispatch_lookup(tree, f, s, d) ==
  IF tree.k = "sym" /\ tree.s = "nil" THEN Ok(s, NilV)
  ELSE IF tree.k = "sym" THEN Frames_getitem(s, f, tree.s)
  ELSE IF tree.k = "num" THEN Ok(s, NumV(tree.n))
  ELSE IF tree.k = "list" /\ Len(tree.l) > 0 THEN
    LET head == tree.l[1] IN
    IF head.k = "sym" /\ Frames_getitem(s, f, head.s).err = "none"
    THEN evaluate_call(tree, f, s, d)
    ELSE IF head = Sym("define") THEN evaluate_define(tree, f, s, d)
    ELSE IF head = Sym("lambda") THEN evaluate_lambda(tree, f, s, d)
    ELSE IF head = Sym("if") THEN evaluate_if(tree, f, s, d)
    ELSE IF head = Sym("and") THEN evaluate_and(Tail(tree.l), f, s, d)
    ELSE IF head = Sym("or") THEN evaluate_or(Tail(tree.l), f, s, d)
    ELSE IF head = Sym("del") THEN evaluate_del(tree, f, s, d)
    ELSE IF head = Sym("let") THEN evaluate_let(tree, f, s, d)
    ELSE IF head = Sym("set!") THEN evaluate_set(tree, f, s, d)
    ELSE evaluate_call(tree, f, s, d)
  ELSE Raise(s, "SchemeEvaluationError")

\* the body of evaluate(tree, frame) for a frame that is given
evaluate_dispatch(tree, f, s, d) ==
  IF tree.k = "sym" /\ tree.s = "nil" THEN Ok(s, NilV)
  ELSE IF tree.k = "sym" THEN Frames_getitem(s, f, tree.s)
  ELSE IF tree.k = "num" THEN Ok(s, NumV(tree.n))
  ELSE IF tree.k = "list" /\ Len(tree.l) > 0 THEN
    LET head == tree.l[1] IN
    IF head = Sym("define") THEN evaluate_define(tree, f, s, d)
    ELSE IF head = Sym("lambda") THEN evaluate_lambda(tree, f, s, d)
    ELSE IF head = Sym("if") THEN evaluate_if(tree, f, s, d)
    ELSE IF head = Sym("and") THEN evaluate_and(Tail(tree.l), f, s, d)
    ELSE IF head = Sym("or") THEN evaluate_or(Tail(tree.l), f, s, d)
    ELSE IF head = Sym("del") THEN evaluate_del(tree, f, s, d)
    ELSE IF head = Sym("let") THEN evaluate_let(tree, f, s, d)
    ELSE IF head = Sym("set!") THEN evaluate_set(tree, f, s, d)
    ELSE evaluate_call(tree, f, s, d)
  ELSE Raise(s, "SchemeEvaluationError")

\* an evaluate that undoes, when it raises, what it did to the bindings of
\* the frames that existed when it was called
evaluate_rollback(tree, f, s, d) ==
  LET r == evaluate_dispatch(tree, f, s, d)
      kept == IF r.err = "none" THEN r.frames
              ELSE [h \in 1..Len(r.frames) |->
                      IF h <= Len(s.frames) THEN s.frames[h] ELSE r.frames[h]]
      r1 == [r EXCEPT !.frames = kept]
  IN [r1 EXCEPT !.trace = Append(@, TraceEntry(tree, f, d, r1))]

\* evaluate(tree, frame) at call depth d; its return is appended to the trace
evaluate(tree, f, s, d) ==
  LET r == evaluate_dispatch(tree, f, s, d)
  IN [r EXCEPT !.trace = Append(@, TraceEntry(tree, f, d, r))]

(***************************************************************************)
(* The expressions handed to evaluate                                      *)
(***************************************************************************)
Call1(h) == Lst(<<h>>)
Form2(h, a) == Lst(<<Sym(h), a>>)
Form3(h, a, b) == Lst(<<Sym(h), a, b>>)
Form4(h, a, b, c) == Lst(<<Sym(h), a, b, c>>)

\* (let ((x 2) (y (+ x 1))) y)
LetXY ==
  Form3("let", Lst(<<Lst(<<Sym("x"), Num(2)>>),
                     Lst(<<Sym("y"), Form3("+", Sym("x"), Num(1))>>)>>),
        Sym("y"))

\* (define (f) x)
DefineF == Form3("define", Lst(<<Sym("f")>>), Sym("x"))

\* (begin (define x 1) (define (f) x) (let ((x 2) (y (+ x 1))) y))
Setup == Form4("begin", Form3("define", Sym("x"), Num(1)), DefineF, LetXY)

\* (lambda () x)
LambdaX == Form3("lambda", Lst(<<>>), Sym("x"))

\* (let ((x 3)) (lambda () x))
LetLambda == Form3("let", Lst(<<Lst(<<Sym("x"), Num(3)>>)>>), LambdaX)

\* (let ((y 2)) (let ((x 7)) y))
LetLet ==
  Form3("let", Lst(<<Lst(<<Sym("y"), Num(2)>>)>>),
        Form3("let", Lst(<<Lst(<<Sym("x"), Num(7)>>)>>), Sym("y")))

\* (begin (define x 1) (define f (let ((x 3)) (lambda () x)))
\*        (let ((y 2)) (let ((x 7)) y)))
Setup2 ==
  Form4("begin", Form3("define", Sym("x"), Num(1)),
        Form3("define", Sym("f"), LetLambda), LetLet)

\* (< x 2)
XLess2 == Form3("<", Sym("x"), Num(2))

\* (lambda (y z) (set! x y))
LambdaYZ == Form3("lambda", Lst(<<Sym("y"), Sym("z")>>), Form3("set!", Sym("x"), Sym("y")))

Programs ==
  { Sym("x"), Sym("y"), Sym("z"), Sym("f"), Sym("+"), Sym("nil"),
    Form3("define", Sym("x"), Num(4)),
    Form3("define", Sym("y"), Num(7)),
    DefineF, Setup, Setup2, LetXY,
    Form3("set!", Sym("x"), Num(5)),
    Form3("set!", Sym("f"), Num(5)),
    Form3("set!", Sym("z"), Num(5)),
    Form3("set!", Sym("+"), Num(5)),
    Form2("del", Sym("x")),
    Form2("del", Sym("f")),
    \* (if (< x 2) (define y 8) z)
    Form4("if", XLess2, Form3("define", Sym("y"), Num(8)), Sym("z")),
    \* (and (< x 2) (define y 0) z)
    Form4("and", XLess2, Form3("define", Sym("y"), Num(0)), Sym("z")),
    \* (and x (define y 4))
    Form3("and", Sym("x"), Form3("define", Sym("y"), Num(4))),
    \* (or (< x 2) (define y 1) z)
    Form4("or", XLess2, Form3("define", Sym("y"), Num(1)), Sym("z")),
    \* (or (< x 1) (define y 0))
    Form3("or", Form3("<", Sym("x"), Num(1)), Form3("define", Sym("y"), Num(0))),
    \* (f)   (f 1)
    Call1(Sym("f")),
    Lst(<<Sym("f"), Num(1)>>),
    \* ((lambda (y z) (set! x y)) 7)   ((lambda (y z) (set! x y)) 7 8)
    Lst(<<LambdaYZ, Num(7)>>),
    Lst(<<LambdaYZ, Num(7), Num(8)>>) }

(***************************************************************************)
(* The state machine: the interpreter's heap between top-level calls       *)
(***************************************************************************)
Store ==
  [frames |-> frames, funcs |-> funcs, pairs |-> pairs, builtins |-> builtins,
   trace |-> <<>>, val |-> NilV, err |-> "none"]

\* repl(): frame = Frames()
Init ==
  /\ frames = <<[parent |-> 0, children |-> EmptyDict]>>
  /\ funcs = <<>>
  /\ pairs = <<>>
  /\ builtins = scheme_builtins
  /\ trace = <<>>
  /\ steps = 0
  /\ tokens = <<>>
  /\ parsed = NotParsed
  /\ source = <<>>
  /\ status = "loop"
  /\ output = <<>>

Commit(r) ==
  /\ frames' = r.frames
  /\ funcs' = r.funcs
  /\ pairs' = r.pairs
  /\ builtins' = r.builtins
  /\ trace' = r.trace
  /\ steps' = steps + 1
  /\ UNCHANGED <<tokens, parsed, source, status, output>>

\* evaluate(tree, frame) on a frame of the heap
Evaluate(tree, f) ==
  /\ steps < MaxSteps
  /\ Commit(evaluate(tree, f, Store, 0))

\* evaluate(tree) and result_and_frame(tree): frame is None, a new frame is made
EvaluateNoFrame(tree) ==
  /\ steps < MaxSteps
  /\ LET s1 == Frames_init(Store, 0)
     IN Commit(evaluate(tree, Len(s1.frames), s1, 0))

Next ==
  \/ \E tree \in Programs : \E f \in 1..Len(frames) : Evaluate(tree, f)
  \/ \E tree \in Programs : EvaluateNoFrame(tree)

Spec == Init /\ [][Next]_vars

(***************************************************************************)
(* The parser on its own: the initial states hold every token sequence     *)
(* over a small vocabulary and the tokens of "(+ 2 (- 5 3))", and the one  *)
(* step is the call parse(tokens).                                         *)
(***************************************************************************)
\* longest token sequence drawn from the vocabulary
MaxTokens == 5

Vocabulary == {"(", ")", "+", "x", "2", "02"}

TokenSeqs == UNION {[1..n -> Vocabulary] : n \in 0..MaxTokens}

\* tokenize("(+ 2 (- 5 3))")
ExampleTokens == <<"(", "+", "2", "(", "-", "5", "3", ")", ")">>

InitParse ==
  /\ frames = <<[parent |-> 0, children |-> EmptyDict]>>
  /\ funcs = <<>>
  /\ pairs = <<>>
  /\ builtins = scheme_builtins
  /\ trace = <<>>
  /\ steps = 0
  /\ tokens \in TokenSeqs \cup {ExampleTokens}
  /\ parsed = NotParsed
  /\ source = <<>>
  /\ status = "loop"
  /\ output = <<>>

Parse ==
  /\ parsed = NotParsed
  /\ parsed' = parse(tokens)
  /\ UNCHANGED <<frames, funcs, pairs, builtins, trace, steps, tokens,
                 source, status, output>>

NextParse == Parse

SpecParse == InitParse /\ [][NextParse]_vars

(***************************************************************************)
(* Closures and their frames.  repl() is started with one file on the      *)
(* command line, which it evaluates on its frame before the loop: the file *)
(* defines x, k, the procedure f whose body is the free name x, and the    *)
(* recursive procedure cnt whose parameter is k.  The expressions change   *)
(* x, call the procedures from the global frame and from let frames,       *)
(* create further closures and bind nil; they are evaluated on every frame *)
(* of the heap.                                                            *)
(***************************************************************************)
\* (define (cnt k) (if (< k 1) 0 (cnt (- k 1))))
DefineCnt ==
  Form3("define", Lst(<<Sym("cnt"), Sym("k")>>),
        Form4("if", Form3("<", Sym("k"), Num(1)), Num(0),
              Form2("cnt", Form3("-", Sym("k"), Num(1)))))

\* (begin (define x 1) (define k 5) (define (f) x)
\*        (define (cnt k) (if (< k 1) 0 (cnt (- k 1)))))
ClosureFile ==
  Lst(<<Sym("begin"), Form3("define", Sym("x"), Num(1)),
        Form3("define", Sym("k"), Num(5)), DefineF, DefineCnt>>)

\* (lambda () k)
LambdaK == Form3("lambda", Lst(<<>>), Sym("k"))

ClosurePrograms ==
  { \* (define x 4)   (set! x 5)   (del x)   (f)   (let ((x 7)) (f))
    Form3("define", Sym("x"), Num(4)),
    Form3("set!", Sym("x"), Num(5)),
    Form2("del", Sym("x")),
    Call1(Sym("f")),
    Form3("let", Lst(<<Lst(<<Sym("x"), Num(7)>>)>>), Call1(Sym("f"))),
    \* (cnt 2)   (let ((k 9)) (cnt 1))
    Form2("cnt", Num(2)),
    Form3("let", Lst(<<Lst(<<Sym("k"), Num(9)>>)>>), Form2("cnt", Num(1))),
    \* (define (g) k)   (g)
    Form3("define", Lst(<<Sym("g")>>), Sym("k")),
    Call1(Sym("g")),
    \* (define h (let ((k 2)) (lambda () k)))   (h)
    Form3("define", Sym("h"),
          Form3("let", Lst(<<Lst(<<Sym("k"), Num(2)>>)>>), LambdaK)),
    Call1(Sym("h")),
    \* (define nil 5)   (set! nil 7)   nil   (let ((nil 3)) nil)
    Form3("define", Sym("nil"), Num(5)),
    Form3("set!", Sym("nil"), Num(7)),
    Sym("nil"),
    Form3("let", Lst(<<Lst(<<Sym("nil"), Num(3)>>)>>), Sym("nil")),
    \* ((lambda (nil) nil) 7)
    Lst(<<Form3("lambda", Lst(<<Sym("nil")>>), Sym("nil")), Num(7)>>) }

\* frame = Frames() and evaluate_file(item, frame) for the one file
InitClosures ==
  LET r == evaluate(ClosureFile, 1,
                    [frames |-> <<[parent |-> 0, children |-> EmptyDict]>>,
                     funcs |-> <<>>, pairs |-> <<>>, builtins |-> scheme_builtins,
                     trace |-> <<>>, val |-> NilV, err |-> "none"], 0)
  IN /\ frames = r.frames
     /\ funcs = r.funcs
     /\ pairs = r.pairs
     /\ builtins = r.builtins
     /\ trace = r.trace
     /\ steps = 0
     /\ tokens = <<>>
     /\ parsed = NotParsed
     /\ source = <<>>
     /\ status = "loop"
     /\ output = <<>>

NextClosures ==
  \E tree \in ClosurePrograms : \E f \in 1..Len(frames) : Evaluate(tree, f)

SpecClosures == InitClosures /\ [][NextClosures]_vars

(***************************************************************************)
(* The tokenizer on its own: the initial states hold every source text     *)
(* over a small alphabet and the text of four lines with comments that the *)
(* source file gives as an example, and the one step is the call           *)
(* tokenize(source).  `steps` counts the call.                             *)
(***************************************************************************)
\* longest source text drawn from the alphabet
MaxChars == 4

Alphabet == {"(", ")", ";", " ", "\n", "a", "1"}

SourceTexts == UNION {[1..n -> Alphabet] : n \in 0..MaxChars}

\* ";add\n (+ ; this\n2\t; spans\n3  ; lines)"
ExampleSource ==
  <<";", "a", "d", "d", "\n",
    " ", "(", "+", " ", ";", " ", "t", "h", "i", "s", "\n",
    "2", "\t", ";", " ", "s", "p", "a", "n", "s", "\n",
    "3", " ", " ", ";", " ", "l", "i", "n", "e", "s", ")">>

InitTokenize ==
  /\ frames = <<[parent |-> 0, children |-> EmptyDict]>>
  /\ funcs = <<>>
  /\ pairs = <<>>
  /\ builtins = scheme_builtins
  /\ trace = <<>>
  /\ steps = 0
  /\ tokens = <<>>
  /\ parsed = NotParsed
  /\ source \in SourceTexts \cup {ExampleSource}
  /\ status = "loop"
  /\ output = <<>>

Tokenize ==
  /\ steps = 0
  /\ tokens' = tokenize(source)
  /\ steps' = 1
  /\ UNCHANGED <<frames, funcs, pairs, builtins, trace, parsed, source, status,
                 output>>

NextTokenize == Tokenize

SpecTokenize == InitTokenize /\ [][NextTokenize]_vars

(***************************************************************************)
(* repl(verbose=False) without files on the command line: after            *)
(* frame = Frames() the loop reads a line, returns when the line is QUIT,  *)
(* and otherwise tokenizes, parses and evaluates it on the frame and       *)
(* prints the value, or the exception when it is a SchemeError.  Any other *)
(* exception leaves repl.  `status` is where repl is: in the loop,         *)
(* returned, or left by an exception; `output` is what it has printed;     *)
(* `steps` counts the lines read; `source`, `tokens`, `parsed` and `trace` *)
(* are those of the last line.                                             *)
(***************************************************************************)
QuitLine == <<"Q", "U", "I", "T">>

InputLines ==
  { QuitLine,
    \* the empty line
    <<>>,
    \* (define x 1)
    <<"(", "d", "e", "f", "i", "n", "e", " ", "x", " ", "1", ")">>,
    \* x
    <<"x">>,
    \* (+ x 1)
    <<"(", "+", " ", "x", " ", "1", ")">>,
    \* )
    <<")">>,
    \* (x
    <<"(", "x">>,
    \* ;)
    <<";", ")">>,
    \* (define (f) x)
    <<"(", "d", "e", "f", "i", "n", "e", " ", "(", "f", ")", " ", "x", ")">>,
    \* (f)
    <<"(", "f", ")">>,
    \* (/ 1 0)
    <<"(", "/", " ", "1", " ", "0", ")">>,
    \*  QUIT
    <<" ", "Q", "U", "I", "T">>,
    \* (set! x 4)
    <<"(", "s", "e", "t", "!", " ", "x", " ", "4", ")">>,
    \* (1 2)
    <<"(", "1", " ", "2", ")">>,
    \* (begin (define x 2) y)
    <<"(", "b", "e", "g", "i", "n", " ", "(", "d", "e", "f", "i", "n", "e",
      " ", "x", " ", "2", ")", " ", "y", ")">> }

Printed(chan, val, err) == [chan |-> chan, val |-> val, err |-> err]

\* input() gave the line, and the line is QUIT: return
ReadQuit ==
  /\ status = "loop"
  /\ steps < MaxSteps
  /\ source' = QuitLine
  /\ status' = "returned"
  /\ steps' = steps + 1
  /\ UNCHANGED <<frames, funcs, pairs, builtins, trace, tokens, parsed, output>>

\* input() gave a line that is not QUIT: the body of the try statement and
\* its except clause
ReadLine(line) ==
  /\ status = "loop"
  /\ steps < MaxSteps
  /\ line # QuitLine
  /\ source' = line
  /\ steps' = steps + 1
  /\ tokens' = tokenize(line)
  /\ parsed' = parse(tokens')
  /\ LET r == IF parsed'.err # "none" THEN Raise(Store, parsed'.err)
              ELSE evaluate(parsed'.tree, 1, Store, 0)
     IN /\ frames' = r.frames
        /\ funcs' = r.funcs
        /\ pairs' = r.pairs
        /\ builtins' = r.builtins
        /\ trace' = r.trace
        /\ IF r.err = "none"
           THEN /\ output' = Append(output, Printed("out", r.val, "none"))
                /\ status' = "loop"
           ELSE IF r.err \in SchemeErrors
           THEN /\ output' = Append(output, Printed("Error", NilV, r.err))
                /\ status' = "loop"
           ELSE /\ output' = output
                /\ status' = "raised"

\* input() found the end of its input: EOFError leaves repl
EndOfInput ==
  /\ status = "loop"
  /\ status' = "raised"
  /\ UNCHANGED <<frames, funcs, pairs, builtins, trace, steps, tokens, parsed,
                 source, output>>

NextRepl ==
  \/ ReadQuit
  \/ \E line \in InputLines : ReadLine(line)
  \/ EndOfInput

SpecRepl == Init /\ [][NextRepl]_vars

(***************************************************************************)
(* Vocabulary of the properties.  A step of the state machine is one       *)
(* top-level call of evaluate; the last entry of trace' is that call (its  *)
(* tree, its frame, its value or exception) and the entries of depth 1 are *)
(* the evaluate calls it made directly, in the order they returned.        *)
(***************************************************************************)
TopOf(tr) == tr[Len(tr)]

IsDepth1(e) == e.depth = 1
KidsOf(tr) == SelectSeq(tr, IsDepth1)

\* the frames from f up to the frame whose parent is the builtin table
RECURSIVE ChainOf(_, _)
ChainOf(fr, f) == IF f = 0 THEN <<>> ELSE <<f>> \o ChainOf(fr, fr[f].parent)

\* the nearest frame of f's parent chain that binds var, 0 when none does
BinderOf(fr, f, var) ==
  LET ch == ChainOf(fr, f)
      hits == {i \in 1..Len(ch) : var \in DOMAIN fr[ch[i]].children}
  IN IF hits = {} THEN 0
     ELSE ch[CHOOSE i \in hits : \A j \in hits : i <= j]

\* the frames on entry of the step's call: a call without a frame runs in a
\* frame of its own, built before anything is evaluated
EntryFrames ==
  IF TopOf(trace').frame <= Len(frames) THEN frames
  ELSE Append(frames, [parent |-> 0, children |-> EmptyDict])

\* fr2 is fr1 with var bound to v in frame g, and nothing else changed
SameButBinding(fr1, fr2, g, var, v) ==
  /\ Len(fr2) = Len(fr1)
  /\ \A h \in 1..Len(fr1) :
       /\ fr2[h].parent = fr1[h].parent
       /\ DOMAIN fr2[h].children =
            (DOMAIN fr1[h].children) \cup (IF h = g THEN {var} ELSE {})
       /\ \A m \in DOMAIN fr2[h].children :
            fr2[h].children[m] = IF h = g /\ m = var THEN v ELSE fr1[h].children[m]

IsForm(tree, h, len) ==
  tree.k = "list" /\ Len(tree.l) = len /\ tree.l[1] = Sym(h)

Keywords == {"define", "lambda", "if", "and", "or", "del", "let", "set!"}

\* a compound expression that evaluate treats as a procedure application
IsApplication(tree) ==
  /\ tree.k = "list" /\ Len(tree.l) > 0
  /\ ~(tree.l[1].k = "sym" /\ tree.l[1].s \in Keywords)

\* what evaluating the symbol var from frame f gives in the heap fr
ResolvesTo(fr, bt, f, var, val, err) ==
  LET g == BinderOf(fr, f, var) IN
  IF g # 0 THEN err = "none" /\ val = fr[g].children[var]
  ELSE IF var \in DOMAIN bt THEN err = "none" /\ val = bt[var]
  ELSE err = "SchemeNameError"

\* C1: lexical scoping.  When a closure is applied with the right number of
\* arguments, from whatever frame, its body is evaluated in a fresh frame
\* whose parent is the frame the closure was created in, so a name that is
\* free in the body resolves against the defining frame and its ancestors
\* and never against the calling frame.
C1_LexicalScope ==
  [][ LET top == TopOf(trace')
          pre == EntryFrames
          kids == KidsOf(trace')
          nargs == Len(top.tree.l) - 1
      IN (/\ IsApplication(top.tree)
          /\ Len(kids) > nargs
          /\ \A i \in 1..(nargs + 1) : kids[i].err = "none"
          /\ kids[1].val.k = "fn"
          /\ Len(funcs'[kids[1].val.n].param) = nargs)
         => LET fn == funcs'[kids[1].val.n]
                body == kids[Len(kids)]
            IN /\ Len(kids) = nargs + 2
               /\ body.tree = fn.body
               /\ body.frame > Len(pre)
               /\ body.frame # top.frame
               /\ frames'[body.frame].parent = fn.frame
               /\ top.val = body.val /\ top.err = body.err
               /\ (/\ fn.body.k = "sym" /\ fn.body.s # "nil"
                   /\ \A i \in 1..Len(fn.param) : fn.param[i].s # fn.body.s)
                  => ResolvesTo(frames', builtins', fn.frame, fn.body.s,
                                top.val, top.err)
    ]_vars

\* C1 witness: (f) was called from a frame B that binds x itself; f's closure
\* was created in a frame A that is neither B nor an ancestor or descendant
\* of B, its body is x, and the call returned the x of A, not the x of B.
C1_Witness ==
  /\ trace # <<>>
  /\ LET top == TopOf(trace)
         B == top.frame
         g == BinderOf(frames, B, "f")
     IN /\ top.tree = Call1(Sym("f"))
        /\ top.err = "none"
        /\ "x" \in DOMAIN frames[B].children
        /\ g # 0
        /\ frames[g].children["f"].k = "fn"
        /\ LET fn == funcs[frames[g].children["f"].n]
               A == fn.frame
           IN /\ fn.body = Sym("x")
              /\ \A i \in 1..Len(ChainOf(frames, B)) : ChainOf(frames, B)[i] # A
              /\ \A i \in 1..Len(ChainOf(frames, A)) : ChainOf(frames, A)[i] # B
              /\ "x" \in DOMAIN frames[A].children
              /\ top.val = frames[A].children["x"]
              /\ top.val # frames[B].children["x"]

\* C2: set! on a name that some frame of the current frame's parent chain
\* binds overwrites the binding of the nearest such frame (the current frame
\* itself or its closest binding ancestor), changes no other binding of any
\* frame, creates no binding in the current frame, and returns the value.
C2_SetNearest ==
  [][ LET top == TopOf(trace')
          pre == EntryFrames
      IN (IsForm(top.tree, "set!", 3) /\ top.tree.l[2].k = "sym"
          /\ top.tree.l[3].k = "num"
          /\ BinderOf(pre, top.frame, top.tree.l[2].s) # 0)
         => LET var == top.tree.l[2].s
                g == BinderOf(pre, top.frame, var)
                v == NumV(top.tree.l[3].n)
            IN /\ top.err = "none" /\ top.val = v
               /\ SameButBinding(pre, frames', g, var, v)
               /\ DOMAIN frames'[top.frame].children = DOMAIN pre[top.frame].children
               /\ builtins' = builtins /\ funcs' = funcs
    ]_vars

\* C2 witness: (set! x 5) ran in a frame that does not bind x, and the
\* nearest binding ancestor's x is now 5.
C2_Witness ==
  /\ trace # <<>>
  /\ LET top == TopOf(trace) IN
     /\ top.tree = Form3("set!", Sym("x"), Num(5))
     /\ top.err = "none"
     /\ top.frame <= Len(frames)
     /\ "x" \notin DOMAIN frames[top.frame].children
     /\ frames[top.frame].parent # 0
     /\ BinderOf(frames, top.frame, "x") # 0
     /\ frames[BinderOf(frames, top.frame, "x")].children["x"] = NumV(5)

\* C3: set! on a name that no frame of the parent chain binds, a name of the
\* builtin table included, raises SchemeNameError, binds nothing in any
\* frame and leaves the builtin table as it was.
C3_SetUnbound ==
  [][ LET top == TopOf(trace')
          pre == EntryFrames
      IN (IsForm(top.tree, "set!", 3) /\ top.tree.l[2].k = "sym"
          /\ top.tree.l[3].k = "num"
          /\ BinderOf(pre, top.frame, top.tree.l[2].s) = 0)
         => /\ top.err = "SchemeNameError"
            /\ frames' = pre
            /\ builtins' = builtins /\ funcs' = funcs
    ]_vars

\* C3 witness: (set! + 5) raised SchemeNameError and + is still the builtin.
C3_Witness ==
  /\ trace # <<>>
  /\ LET top == TopOf(trace) IN
     /\ top.tree = Form3("set!", Sym("+"), Num(5))
     /\ top.err = "SchemeNameError"
     /\ builtins["+"] = NativeV("+")
     /\ \A h \in 1..Len(frames) : "+" \notin DOMAIN frames[h].children

\* C4: define, with a symbol target or a compound target, binds the name in
\* the frame it is evaluated in and returns the bound value; every other
\* frame, ancestors that bind the same name included, and the builtin table
\* are unchanged.
C4_DefineLocal ==
  [][ LET top == TopOf(trace')
          pre == EntryFrames
          t == top.tree.l
      IN /\ (IsForm(top.tree, "define", 3) /\ t[2].k = "sym" /\ t[3].k = "num")
            => /\ top.err = "none" /\ top.val = NumV(t[3].n)
               /\ SameButBinding(pre, frames', top.frame, t[2].s, top.val)
               /\ builtins' = builtins /\ funcs' = funcs
         /\ (IsForm(top.tree, "define", 3) /\ t[2].k = "list" /\ Len(t[2].l) > 0)
            => /\ top.err = "none" /\ top.val = FnV(Len(funcs) + 1)
               /\ funcs' = Append(funcs, [body |-> t[3], param |-> Tail(t[2].l),
                                          frame |-> top.frame])
               /\ SameButBinding(pre, frames', top.frame, t[2].l[1].s, top.val)
               /\ builtins' = builtins
    ]_vars

\* C4 witness: (define x 4) ran in a frame whose parent binds x to another
\* value; the frame binds x to 4 and the parent's x is as before.
C4_Witness ==
  /\ trace # <<>>
  /\ LET top == TopOf(trace) IN
     /\ top.tree = Form3("define", Sym("x"), Num(4))
     /\ top.val = NumV(4)
     /\ frames[top.frame].parent # 0
     /\ "x" \in DOMAIN frames[frames[top.frame].parent].children
     /\ frames[frames[top.frame].parent].children["x"] = NumV(1)
     /\ frames[top.frame].children["x"] = NumV(4)

\* a tree in which none of the given symbols occurs
RECURSIVE Mentions(_, _)
Mentions(tree, names) ==
  \/ tree.k = "sym" /\ tree.s \in names
  \/ tree.k = "list" /\ \E i \in 1..Len(tree.l) : Mentions(tree.l[i], names)

\* C5: let builds one new frame whose parent is the current frame, evaluates
\* the value expressions in that frame in listed order and binds each name
\* as soon as its value is there, then evaluates the body in that frame; a
\* later value expression sees the earlier names ((let ((x 2) (y (+ x 1))) y)
\* is 3) and the enclosing frame gains no binding.
C5_LetSequential ==
  [][ LET top == TopOf(trace')
          pre == EntryFrames
          kids == KidsOf(trace')
          t == top.tree.l
          nf == Len(pre) + 1
      IN (/\ IsForm(top.tree, "let", 3) /\ t[2].k = "list"
          /\ \A i \in 1..Len(t[2].l) :
               /\ t[2].l[i].k = "list" /\ Len(t[2].l[i].l) = 2
               /\ t[2].l[i].l[1].k = "sym")
         => LET b == t[2].l
                nb == Len(b)
            IN /\ Len(frames') >= nf
               /\ frames'[nf].parent = top.frame
               /\ Len(kids) <= nb + 1
               /\ \A i \in 1..Len(kids) :
                    /\ kids[i].frame = nf
                    /\ kids[i].tree = IF i <= nb THEN b[i].l[2] ELSE t[3]
                    /\ i < Len(kids) => kids[i].err = "none"
               /\ top.val = kids[Len(kids)].val /\ top.err = kids[Len(kids)].err
               /\ Len(kids) <= nb => top.err # "none"
               /\ (~Mentions(top.tree, {"define", "set!", "del", "lambda"})
                   /\ \A i \in 1..Len(trace') : trace'[i].val.k # "fn")
                  => /\ SubSeq(frames', 1, Len(pre)) = pre
                     /\ \A i \in 1..nb :
                          i < Len(kids) =>
                            /\ b[i].l[1].s \in DOMAIN frames'[nf].children
                            /\ (\A j \in (i + 1)..nb : b[j].l[1].s # b[i].l[1].s)
                                 => frames'[nf].children[b[i].l[1].s] = kids[i].val
               /\ (top.tree = LetXY /\ ResolvesTo(pre, builtins, top.frame, "+",
                                                  NativeV("+"), "none"))
                  => top.err = "none" /\ top.val = NumV(3)
    ]_vars

\* C5 witness: (let ((x 2) (y (+ x 1))) y) ran in a frame that binds x to 1;
\* it returned 3, the new frame holds x = 2 and y = 3, and the enclosing
\* frame still has x = 1 and no y.
C5_Witness ==
  /\ trace # <<>>
  /\ LET top == TopOf(trace)
         nf == Len(frames)
     IN /\ top.tree = LetXY
        /\ top.val = NumV(3)
        /\ top.frame < nf
        /\ frames[nf].parent = top.frame
        /\ DOMAIN frames[nf].children = {"x", "y"}
        /\ frames[nf].children["x"] = NumV(2)
        /\ frames[nf].children["y"] = NumV(3)
        /\ DOMAIN frames[top.frame].children = {"x", "f"}
        /\ frames[top.frame].children["x"] = NumV(1)

\* the direct evaluations of an and (stop = FALSE) or an or (stop = TRUE):
\* a prefix of the operands, in order, cut at the first operand whose truth
\* value is stop (or that raised)
ShortCircuit(ops, kids, top, stop) ==
  /\ Len(kids) <= Len(ops)
  /\ \A i \in 1..Len(kids) :
       /\ kids[i].tree = ops[i] /\ kids[i].frame = top.frame
       /\ i < Len(kids) => (kids[i].err = "none" /\ Truthy(kids[i].val) # stop)
  /\ IF Len(kids) > 0 /\ kids[Len(kids)].err # "none"
       THEN top.err = kids[Len(kids)].err
     ELSE IF Len(kids) > 0 /\ Truthy(kids[Len(kids)].val) = stop
       THEN top.err = "none" /\ top.val = BoolV(stop)
     ELSE Len(kids) = Len(ops) /\ top.err = "none" /\ top.val = BoolV(~stop)

\* C6: and evaluates its operands left to right and returns false at the
\* first falsy one without evaluating any later operand, true when none is
\* falsy; or returns true at the first truthy operand without evaluating any
\* later one, false when none is truthy.
C6_ShortCircuit ==
  [][ LET top == TopOf(trace')
          kids == KidsOf(trace')
      IN /\ (top.tree.k = "list" /\ Len(top.tree.l) > 0 /\ top.tree.l[1] = Sym("and"))
            => ShortCircuit(Tail(top.tree.l), kids, top, FALSE)
         /\ (top.tree.k = "list" /\ Len(top.tree.l) > 0 /\ top.tree.l[1] = Sym("or"))
            => ShortCircuit(Tail(top.tree.l), kids, top, TRUE)
    ]_vars

\* C6 witness: (and (< x 2) (define y 0) z) returned false after its first
\* operand: y was not defined and the unbound z raised nothing.
C6_Witness ==
  /\ trace # <<>>
  /\ LET top == TopOf(trace) IN
     /\ top.tree = Form4("and", XLess2, Form3("define", Sym("y"), Num(0)), Sym("z"))
     /\ top.err = "none" /\ top.val = BoolV(FALSE)
     /\ Len(KidsOf(trace)) = 1
     /\ "y" \notin DOMAIN frames[top.frame].children

\* C7: if evaluates its condition once and then exactly one of the
\* consequent and the alternative, whose value it returns; the other branch
\* is not evaluated.
C7_IfOneBranch ==
  [][ LET top == TopOf(trace')
          kids == KidsOf(trace')
          t == top.tree.l
      IN IsForm(top.tree, "if", 4)
         => /\ Len(kids) >= 1
            /\ kids[1].tree = t[2] /\ kids[1].frame = top.frame
            /\ IF kids[1].err # "none"
                 THEN Len(kids) = 1 /\ top.err = kids[1].err
                 ELSE /\ Len(kids) = 2
                      /\ kids[2].tree = IF Truthy(kids[1].val) THEN t[3] ELSE t[4]
                      /\ kids[2].frame = top.frame
                      /\ top.val = kids[2].val /\ top.err = kids[2].err
    ]_vars

\* C7 witness: (if (< x 2) (define y 8) z) with a true condition defined y
\* and returned 8; the unbound z of the alternative raised nothing.
C7_Witness ==
  /\ trace # <<>>
  /\ LET top == TopOf(trace) IN
     /\ top.tree = Form4("if", XLess2, Form3("define", Sym("y"), Num(8)), Sym("z"))
     /\ top.err = "none" /\ top.val = NumV(8)
     /\ KidsOf(trace)[1].val = BoolV(TRUE)
     /\ frames[top.frame].children["y"] = NumV(8)

\* C8: applying a closure to a number of arguments other than its number of
\* parameters raises SchemeEvaluationError; the body is not evaluated, no
\* frame is built and no parameter is bound in any frame.
C8_ArgCount ==
  [][ LET top == TopOf(trace')
          pre == EntryFrames
          kids == KidsOf(trace')
          t == top.tree.l
          nargs == Len(t) - 1
      IN (/\ IsApplication(top.tree)
          /\ Len(kids) > nargs
          /\ \A i \in 1..(nargs + 1) : kids[i].err = "none"
          /\ kids[1].val.k = "fn"
          /\ Len(funcs'[kids[1].val.n].param) # nargs)
         => /\ top.err = "SchemeEvaluationError"
            /\ Len(kids) = nargs + 1
            /\ \A i \in 1..Len(kids) : kids[i].tree = t[i]
            /\ (/\ t[1].k = "sym" \/ IsForm(t[1], "lambda", 3)
                /\ \A i \in 2..Len(t) : t[i].k \in {"num", "sym"})
               => frames' = pre
    ]_vars

\* C8 witness: the two-parameter closure (lambda (y z) (set! x y)) was
\* applied to the single argument 7 in a frame that sees a binding of x;
\* SchemeEvaluationError was raised and x is not 7.
C8_Witness ==
  /\ trace # <<>>
  /\ LET top == TopOf(trace) IN
     /\ top.tree = Lst(<<LambdaYZ, Num(7)>>)
     /\ top.err = "SchemeEvaluationError"
     /\ BinderOf(frames, top.frame, "x") # 0
     /\ frames[BinderOf(frames, top.frame, "x")].children["x"] # NumV(7)

\* C9: evaluating a symbol returns the binding of the nearest frame of the
\* parent chain that binds it (the frame itself first, then each ancestor in
\* order), else the entry of the builtin table, and raises SchemeNameError
\* exactly when neither a frame of the chain nor the builtin table binds it.
C9_Lookup ==
  [][ LET top == TopOf(trace')
          pre == EntryFrames
          var == top.tree.s
          g == BinderOf(pre, top.frame, var)
      IN (top.tree.k = "sym" /\ var # "nil")
         => /\ frames' = pre /\ funcs' = funcs /\ builtins' = builtins
            /\ top.err \in {"none", "SchemeNameError"}
            /\ (g # 0) => (top.err = "none" /\ top.val = pre[g].children[var])
            /\ (g = 0 /\ var \in DOMAIN builtins)
                 => (top.err = "none" /\ top.val = builtins[var])
            /\ (top.err = "SchemeNameError") <=> (g = 0 /\ var \notin DOMAIN builtins)
    ]_vars

\* C9 witness: x was looked up from a frame that does not bind it and the
\* value of an ancestor's binding came back.
C9_Witness ==
  /\ trace # <<>>
  /\ LET top == TopOf(trace) IN
     /\ top.tree = Sym("x")
     /\ top.err = "none"
     /\ "x" \notin DOMAIN frames[top.frame].children
     /\ BinderOf(frames, top.frame, "x") # 0
     /\ top.val = frames[BinderOf(frames, top.frame, "x")].children["x"]

\* C10: del removes the binding from the current frame only and returns the
\* removed value; when the current frame does not bind the name it raises
\* SchemeNameError even if an ancestor binds it; the ancestors are unchanged
\* either way, so after a del the name resolves as it did from the parent.
C10_DelLocal ==
  [][ LET top == TopOf(trace')
          pre == EntryFrames
          var == top.tree.l[2].s
          f == top.frame
      IN (IsForm(top.tree, "del", 2) /\ top.tree.l[2].k = "sym")
         => /\ funcs' = funcs /\ builtins' = builtins
            /\ Len(frames') = Len(pre)
            /\ \A h \in 1..Len(pre) : h # f => frames'[h] = pre[h]
            /\ IF var \in DOMAIN pre[f].children
                 THEN /\ top.err = "none"
                      /\ top.val = pre[f].children[var]
                      /\ frames'[f].parent = pre[f].parent
                      /\ DOMAIN frames'[f].children = (DOMAIN pre[f].children) \ {var}
                      /\ \A m \in DOMAIN frames'[f].children :
                           frames'[f].children[m] = pre[f].children[m]
                      /\ BinderOf(frames', f, var) = BinderOf(pre, pre[f].parent, var)
                 ELSE /\ top.err = "SchemeNameError"
                      /\ frames' = pre
    ]_vars

\* C10 witness: (del f) raised SchemeNameError in a frame whose ancestor
\* still binds f.
C10_Witness ==
  /\ trace # <<>>
  /\ LET top == TopOf(trace) IN
     /\ top.tree = Form2("del", Sym("f"))
     /\ top.err = "SchemeNameError"
     /\ frames[top.frame].parent # 0
     /\ BinderOf(frames, top.frame, "f") # 0

(***************************************************************************)
(* The builtin procedures.  A session binds a, b, p and n to a proper      *)
(* list, a pair, a pair chain that does not end in nil and a list that     *)
(* holds a list, and then applies the builtins to them on the same frame.  *)
(***************************************************************************)
\* most arguments of the applications that are enumerated in full
MaxArgs == 2

\* (begin (define a (list 1 2)) (define b (cons 1 2))
\*        (define p (cons 1 (cons 2 3))) (define n (list a 3)))
BuiltinSetup ==
  Lst(<<Sym("begin"),
        Form3("define", Sym("a"), Form3("list", Num(1), Num(2))),
        Form3("define", Sym("b"), Form3("cons", Num(1), Num(2))),
        Form3("define", Sym("p"),
              Form3("cons", Num(1), Form3("cons", Num(2), Num(3)))),
        Form3("define", Sym("n"), Form3("list", Sym("a"), Num(3)))>>)

\* the expression (h args[1] ... args[n])
App(h, args) == Lst(<<Sym(h)>> \o args)

ArgSeqs(S) == UNION {[1..m -> S] : m \in 0..MaxArgs}

\* m times the argument a
Repeat(m) == [i \in 1..m |-> Sym("a")]

AppendPrograms ==
  {App("append", q) : q \in ArgSeqs({Sym("a"), Sym("b"), Sym("n"), Sym("nil"), Num(1)})}
  \cup {App("append", <<Sym("a"), Sym("nil"), Sym("n")>>)}

ListRefPrograms ==
  {App("list-ref", <<l, Num(i)>>) :
     l \in {Sym("a"), Sym("b"), Sym("p"), Sym("n"), Sym("nil"), Num(1)},
     i \in (0 - 1)..2}

ListPrograms ==
  {App(h, <<l>>) :
     h \in {"list?", "length"},
     l \in {Sym("a"), Sym("b"), Sym("p"), Sym("n"), Sym("nil"), Num(1), Sym("+")}}
  \cup {App("length", <<App("list", q)>>) : q \in ArgSeqs({Sym("a"), Num(1)})}

EqualPrograms ==
  {App("equal?", q) :
     q \in ArgSeqs({Num(1), Num(2), Sym("#t"), Sym("a"), Form3("list", Num(1), Num(2))})}

DivPrograms ==
  {App("/", q) : q \in ArgSeqs({Num(0), Num(1), Num(2), Sym("nil")})}

ArityPrograms ==
  {App(h, Repeat(m)) :
     h \in {"cons", "car", "cdr", "not", "list?", "length", "list-ref", "-",
            "/", "begin"},
     m \in 0..3}
  \cup {App(h, Repeat(m)) : h \in {"map", "filter"}, m \in 0..1}
  \cup {App("reduce", Repeat(m)) : m \in 0..2}

BuiltinPrograms ==
  AppendPrograms \cup ListRefPrograms \cup ListPrograms \cup EqualPrograms
  \cup DivPrograms \cup ArityPrograms

\* the definitions are evaluated first, on the global frame
LoadDefinitions ==
  /\ steps = 0
  /\ Evaluate(BuiltinSetup, 1)

ApplyBuiltin(tree) ==
  /\ steps > 0
  /\ Evaluate(tree, 1)

NextBuiltins ==
  \/ LoadDefinitions
  \/ \E tree \in BuiltinPrograms : ApplyBuiltin(tree)

SpecBuiltins == Init /\ [][NextBuiltins]_vars

(***************************************************************************)
(* map, filter and reduce.  A session binds a to the list (3 1 2), p to a  *)
(* pair chain that does not end in nil, n to a list whose second element   *)
(* is a list, k to 0 and four procedures, and then applies map, filter and *)
(* reduce to them on the same frame.                                       *)
(***************************************************************************)
\* (begin (define a (list 3 1 2)) (define p (cons 1 (cons 2 3)))
\*        (define n (list 1 a)) (define k 0)
\*        (define (inc e) (+ e 1)) (define (big e) (< 1 e))
\*        (define (rec e) (set! k (+ (* k 10) e)))
\*        (define (sub acc e) (- acc e)))
HigherSetup ==
  Lst(<<Sym("begin"),
        Form3("define", Sym("a"), Lst(<<Sym("list"), Num(3), Num(1), Num(2)>>)),
        Form3("define", Sym("p"),
              Form3("cons", Num(1), Form3("cons", Num(2), Num(3)))),
        Form3("define", Sym("n"), Form3("list", Num(1), Sym("a"))),
        Form3("define", Sym("k"), Num(0)),
        Form3("define", Lst(<<Sym("inc"), Sym("e")>>), Form3("+", Sym("e"), Num(1))),
        Form3("define", Lst(<<Sym("big"), Sym("e")>>), Form3("<", Num(1), Sym("e"))),
        Form3("define", Lst(<<Sym("rec"), Sym("e")>>),
              Form3("set!", Sym("k"),
                    Form3("+", Form3("*", Sym("k"), Num(10)), Sym("e")))),
        Form3("define", Lst(<<Sym("sub"), Sym("acc"), Sym("e")>>),
              Form3("-", Sym("acc"), Sym("e")))>>)

\* the list arguments: three lists, a pair chain and a number
ListArgs == {Sym("a"), Sym("n"), Sym("nil"), Sym("p"), Num(1)}

MapPrograms ==
  {App(h, <<fn, l>>) :
     h \in {"map", "filter"},
     fn \in {Sym("inc"), Sym("big"), Sym("rec"), Sym("sub"), Sym("-"), Sym("not"),
             Sym("car"), Sym("nil"), Num(1)},
     l \in ListArgs}

ReducePrograms ==
  {App("reduce", <<fn, l, seed>>) :
     fn \in {Sym("sub"), Sym("inc"), Sym("rec"), Sym("-"), Sym("+"), Sym("cons"),
             Num(1)},
     l \in ListArgs,
     seed \in {Num(10), Sym("nil")}}

HigherPrograms == MapPrograms \cup ReducePrograms

\* the definitions are evaluated first, on the global frame
LoadProcedures ==
  /\ steps = 0
  /\ Evaluate(HigherSetup, 1)

ApplyHigher(tree) ==
  /\ steps > 0
  /\ Evaluate(tree, 1)

NextHigher ==
  \/ LoadProcedures
  \/ \E tree \in HigherPrograms : ApplyHigher(tree)

SpecHigher == Init /\ [][NextHigher]_vars

(***************************************************************************)
(* Pairs that stay in the program.  repl() is started with one file that   *)
(* binds the lists a, n and b, the pair chain p and the procedures of the  *)
(* map session; the expressions build pairs from the pairs that the frame  *)
(* holds with cons, list, append, map and filter, bind the results to      *)
(* names so that later expressions build on shared cells, and walk them    *)
(* with list?, length and list-ref.                                        *)
(***************************************************************************)
\* (begin (begin (define a (list 3 1 2)) ...) (define b (list 4 5)))
PairFile ==
  Lst(<<Sym("begin"), HigherSetup,
        Form3("define", Sym("b"), Form3("list", Num(4), Num(5)))>>)

PairPrograms ==
  { \* (define c (append a b))   (define a (append a a))   (define b (append b c))
    Form3("define", Sym("c"), Form3("append", Sym("a"), Sym("b"))),
    Form3("define", Sym("a"), Form3("append", Sym("a"), Sym("a"))),
    Form3("define", Sym("b"), Form3("append", Sym("b"), Sym("c"))),
    \* (append a p)   (append b nil a)
    Form3("append", Sym("a"), Sym("p")),
    Form4("append", Sym("b"), Sym("nil"), Sym("a")),
    \* (define b (cons a b))   (define c (cons c c))   (set! p (cons p a))
    Form3("define", Sym("b"), Form3("cons", Sym("a"), Sym("b"))),
    Form3("define", Sym("c"), Form3("cons", Sym("c"), Sym("c"))),
    Form3("set!", Sym("p"), Form3("cons", Sym("p"), Sym("a"))),
    \* (define c (list a b a))   (set! a (cdr a))
    Form3("define", Sym("c"), Form4("list", Sym("a"), Sym("b"), Sym("a"))),
    Form3("set!", Sym("a"), Form2("cdr", Sym("a"))),
    \* (define a (map inc a))   (define c (map cdr n))   (define b (filter big a))
    Form3("define", Sym("a"), Form3("map", Sym("inc"), Sym("a"))),
    Form3("define", Sym("c"), Form3("map", Sym("cdr"), Sym("n"))),
    Form3("define", Sym("b"), Form3("filter", Sym("big"), Sym("a"))),
    \* (define c (filter list? n))
    Form3("define", Sym("c"), Form3("filter", Sym("list?"), Sym("n"))),
    \* (list? c)   (list? p)   (length a)   (length b)   (list-ref c 1)
    Form2("list?", Sym("c")),
    Form2("list?", Sym("p")),
    Form2("length", Sym("a")),
    Form2("length", Sym("b")),
    Form3("list-ref", Sym("c"), Num(1)),
    \* (list-ref p 0)   (car b)
    Form3("list-ref", Sym("p"), Num(0)),
    Form2("car", Sym("b")) }

\* frame = Frames() and evaluate_file(item, frame) for the one file
InitPairs ==
  LET r == evaluate(PairFile, 1,
                    [frames |-> <<[parent |-> 0, children |-> EmptyDict]>>,
                     funcs |-> <<>>, pairs |-> <<>>, builtins |-> scheme_builtins,
                     trace |-> <<>>, val |-> NilV, err |-> "none"], 0)
  IN /\ frames = r.frames
     /\ funcs = r.funcs
     /\ pairs = r.pairs
     /\ builtins = r.builtins
     /\ trace = r.trace
     /\ steps = 0
     /\ tokens = <<>>
     /\ parsed = NotParsed
     /\ source = <<>>
     /\ status = "loop"
     /\ output = <<>>

NextPairs == \E tree \in PairPrograms : Evaluate(tree, 1)

SpecPairs == InitPairs /\ [][NextPairs]_vars

(***************************************************************************)
(* The special forms when their keywords are bound.  The expressions bind  *)
(* each keyword to a number or to a procedure, with define, set! and let,  *)
(* and use each special form; they are evaluated on every frame of the     *)
(* heap, the frames left by let included.                                  *)
(***************************************************************************)
SpecialForms == {"define", "lambda", "if", "and", "or", "del", "let", "set!"}

\* (define K 5), (define (K a) a) and (set! K 7) for every keyword K,
\* (let ((if 3)) 0), and (begin (define x 1) (define (K a) a)) for the two
\* keywords whose forms need a binding of x
BindingPrograms ==
  {Form3("define", Sym(kw), Num(5)) : kw \in SpecialForms}
  \cup {Form3("define", Lst(<<Sym(kw), Sym("a")>>), Sym("a")) : kw \in SpecialForms}
  \cup {Form3("set!", Sym(kw), Num(7)) : kw \in SpecialForms}
  \cup {Form3("let", Lst(<<Lst(<<Sym("if"), Num(3)>>)>>), Num(0))}
  \cup {Form3("begin", Form3("define", Sym("x"), Num(1)),
               Form3("define", Lst(<<Sym(kw), Sym("a")>>), Sym("a"))) :
          kw \in {"del", "set!"}}

\* one expression for every special form
FormPrograms ==
  {Form3("define", Sym("x"), Num(4)),
   Form3("define", Lst(<<Sym("g")>>), Num(1)),
   Form3("lambda", Lst(<<Sym("y")>>), Sym("y")),
   Form4("if", Num(1), Num(2), Num(3)),
   Form3("and", Num(1), Num(0)),
   Form3("or", Num(0), Num(2)),
   Form3("let", Lst(<<Lst(<<Sym("x"), Num(2)>>)>>), Sym("x")),
   Form3("set!", Sym("x"), Num(9)),
   Form2("del", Sym("x"))}

\* (define 3 4) and (define 3 (define x 8))
BadDefinePrograms ==
  {Form3("define", Num(3), Num(4)),
   Form3("define", Num(3), Form3("define", Sym("x"), Num(8)))}

NextForms ==
  \E tree \in BindingPrograms \cup FormPrograms \cup BadDefinePrograms :
    \E f \in 1..Len(frames) : Evaluate(tree, f)

SpecForms == Init /\ [][NextForms]_vars

(***************************************************************************)
(* Procedure application and errors.  The expressions have arguments with  *)
(* side effects (define, set!), heads that are not callable and arguments  *)
(* that raise after an earlier one has defined a name; they are evaluated  *)
(* on every frame of the heap.                                             *)
(***************************************************************************)
\* (lambda (a b) (- a b))
LambdaAB == Form3("lambda", Lst(<<Sym("a"), Sym("b")>>), Form3("-", Sym("a"), Sym("b")))

\* (lambda (a) (+ (define w a) q))
LambdaW ==
  Form3("lambda", Lst(<<Sym("a")>>),
        Form3("+", Form3("define", Sym("w"), Sym("a")), Sym("q")))

OrderPrograms ==
  { \* (1 (define x 5))   (x (define x 5))   ((define x 1) (define y 2))
    Lst(<<Num(1), Form3("define", Sym("x"), Num(5))>>),
    Lst(<<Sym("x"), Form3("define", Sym("x"), Num(5))>>),
    Lst(<<Form3("define", Sym("x"), Num(1)), Form3("define", Sym("y"), Num(2))>>),
    \* (+ (define x 1) (+ x 1))   (+ (define x 2) y)   (+ (define x 3) nil)
    Form3("+", Form3("define", Sym("x"), Num(1)), Form3("+", Sym("x"), Num(1))),
    Form3("+", Form3("define", Sym("x"), Num(2)), Sym("y")),
    Form3("+", Form3("define", Sym("x"), Num(3)), Sym("nil")),
    \* (list (set! x 7) x z)   (list (define x 1) x (define x 2) x)
    Form4("list", Form3("set!", Sym("x"), Num(7)), Sym("x"), Sym("z")),
    Lst(<<Sym("list"), Form3("define", Sym("x"), Num(1)), Sym("x"),
          Form3("define", Sym("x"), Num(2)), Sym("x")>>),
    \* (- (define x 5) 2)   ((lambda (a b) (- a b)) (define x 8) 3)
    Form3("-", Form3("define", Sym("x"), Num(5)), Num(2)),
    Lst(<<LambdaAB, Form3("define", Sym("x"), Num(8)), Num(3)>>),
    \* ((lambda (a) (+ (define w a) q)) 5)
    Lst(<<LambdaW, Num(5)>>),
    \* (begin (define x 6) y)   (let ((u (set! x 9))) q)
    Form3("begin", Form3("define", Sym("x"), Num(6)), Sym("y")),
    Form3("let", Lst(<<Lst(<<Sym("u"), Form3("set!", Sym("x"), Num(9))>>)>>), Sym("q")),
    \* (if (define x 1) y 0)   (and (define y 3) (car y))
    Form4("if", Form3("define", Sym("x"), Num(1)), Sym("y"), Num(0)),
    Form3("and", Form3("define", Sym("y"), Num(3)), Form2("car", Sym("y"))),
    \* (define z 4)   (define y 1)   (del x)
    Form3("define", Sym("z"), Num(4)),
    Form3("define", Sym("y"), Num(1)),
    Form2("del", Sym("x")) }

NextOrder ==
  \E tree \in OrderPrograms : \E f \in 1..Len(frames) : Evaluate(tree, f)

SpecOrder == Init /\ [][NextOrder]_vars

(***************************************************************************)
(* Vocabulary of the parser properties                                     *)
(***************************************************************************)
\* parentheses opened and not yet closed after the first i tokens
RECURSIVE Depth(_, _)
Depth(toks, i) ==
  IF i = 0 THEN 0
  ELSE Depth(toks, i - 1)
       + (IF toks[i] = "(" THEN 1 ELSE IF toks[i] = ")" THEN 0 - 1 ELSE 0)

\* toks is exactly one complete expression: one atom, or a parenthesised
\* sequence whose first open paren is closed by the last token
OneExpression(toks) ==
  /\ Len(toks) >= 1
  /\ Len(toks) = 1 => toks[1] \notin {"(", ")"}
  /\ \A i \in 1..(Len(toks) - 1) : Depth(toks, i) >= 1
  /\ Depth(toks, Len(toks)) = 0

HasParsed == parsed.err # "unset"

\* the decimal numeral of a number, as str() writes it
Numeral == (2 :> "2") @@ (3 :> "3") @@ (5 :> "5")

RECURSIVE Flatten(_)
Flatten(qq) == IF qq = <<>> THEN <<>> ELSE Head(qq) \o Flatten(Tail(qq))

\* the tokens that write a tree back out
RECURSIVE WriteTokens(_)
WriteTokens(tree) ==
  IF tree.k = "num" THEN <<Numeral[tree.n]>>
  ELSE IF tree.k = "sym" THEN <<tree.s>>
  ELSE <<"(">> \o Flatten([i \in 1..Len(tree.l) |-> WriteTokens(tree.l[i])])
       \o <<")">>

\* C11: parse raises SchemeSyntaxError for every token sequence that is not
\* exactly one complete top-level expression (a missing close paren, a
\* close paren without an open paren, tokens left after the expression).
C11_SyntaxError ==
  (HasParsed /\ ~OneExpression(tokens)) => parsed.err = "SchemeSyntaxError"

\* C12 as stated: for a token sequence that is exactly one expression, parse
\* returns a tree and writing the tree back out gives the input sequence.
C12_RoundTrip ==
  (HasParsed /\ OneExpression(tokens))
    => parsed.err = "none" /\ WriteTokens(parsed.tree) = tokens

\* C12: for a token sequence that is exactly one expression, parse returns
\* the tree whose nesting mirrors the parentheses and whose leaves are the
\* other tokens in order, a numeric token as its number and any other token
\* as a symbol: writing the tree back out gives the input sequence with
\* every numeric token replaced by the numeral of its value.
C12_RoundTripValue ==
  (HasParsed /\ OneExpression(tokens))
    => /\ parsed.err = "none"
       /\ WriteTokens(parsed.tree) =
            [i \in 1..Len(tokens) |->
               IF tokens[i] \in {"(", ")"} THEN tokens[i]
               ELSE WriteTokens(number_or_symbol(tokens[i]))[1]]

\* C12 witness: the tokens of "(+ 2 (- 5 3))" gave ["+", 2, ["-", 5, 3]].
C12_Witness ==
  /\ tokens = ExampleTokens
  /\ parsed.err = "none"
  /\ parsed.tree = Lst(<<Sym("+"), Num(2), Lst(<<Sym("-"), Num(5), Num(3)>>)>>)

(***************************************************************************)
(* Vocabulary of the builtin properties.  In a step that applies a builtin *)
(* the entries of depth 1 are the evaluation of the head and of every      *)
(* argument; the values of the arguments are what the builtin was given.   *)
(***************************************************************************)
\* the step evaluated (h e1 ... en), h is the builtin of that name and every
\* ei has a value, so that the builtin was called
CalledBuiltin(h) ==
  LET top == TopOf(trace')
      kids == KidsOf(trace')
  IN /\ top.tree.k = "list" /\ Len(top.tree.l) >= 1
     /\ top.tree.l[1] = Sym(h)
     /\ Len(kids) = Len(top.tree.l)
     /\ \A i \in 1..Len(kids) :
          kids[i].tree = top.tree.l[i] /\ kids[i].err = "none"
     /\ kids[1].val = NativeV(h)

\* the values the builtin was given
ArgVals ==
  LET kids == KidsOf(trace') IN [i \in 1..(Len(kids) - 1) |-> kids[i + 1].val]

\* every argument expression is a number or a symbol: evaluating the
\* arguments builds no pair, the heap at the call is the heap before the step
AtomArgs ==
  LET t == TopOf(trace').tree.l IN \A i \in 2..Len(t) : t[i].k \in {"num", "sym"}

\* the pair cells of the rest-chain of v, in order
RECURSIVE SpineOf(_, _)
SpineOf(ps, v) ==
  IF v.k # "pair" THEN <<>> ELSE <<v.n>> \o SpineOf(ps, ps[v.n].cdr)

\* the value that ends the rest-chain of v
RECURSIVE ChainEnd(_, _)
ChainEnd(ps, v) == IF v.k # "pair" THEN v ELSE ChainEnd(ps, ps[v.n].cdr)

\* nil, or a pair whose rest is a proper list
ProperList(ps, v) == ChainEnd(ps, v) = NilV

\* the first fields along the rest-chain of v
Elements(ps, v) ==
  LET sp == SpineOf(ps, v) IN [i \in 1..Len(sp) |-> ps[sp[i]].car]

\* the pair cells reachable from the cells S through first and rest fields
RECURSIVE ReachFrom(_, _)
ReachFrom(ps, S) ==
  LET more == S \cup {ps[i].car.n : i \in {j \in S : ps[j].car.k = "pair"}}
                \cup {ps[i].cdr.n : i \in {j \in S : ps[j].cdr.k = "pair"}}
  IN IF more = S THEN S ELSE ReachFrom(ps, more)

IsZero(v) == v.k = "num" /\ v.n = 0

\* C13: a division whose divisor is zero (a zero among the second and later
\* arguments of /, or the single argument of unary /) raises
\* SchemeEvaluationError.
C13_DivZero ==
  [][ LET args == ArgVals IN
      (/\ CalledBuiltin("/")
       /\ \/ Len(args) = 1 /\ IsZero(args[1])
          \/ \E i \in 2..Len(args) : IsZero(args[i]))
      => TopOf(trace').err = "SchemeEvaluationError"
    ]_vars

\* the argument counts that the builtin h does not accept
WrongCount(h, m) ==
  CASE h = "cons" -> m # 2
    [] h \in {"car", "cdr", "not"} -> m # 1
    [] h \in {"list?", "length", "-", "/", "begin"} -> m = 0
    [] h \in {"list-ref", "map", "filter"} -> m < 2
    [] h = "reduce" -> m < 3
    [] OTHER -> FALSE

\* C15: calling a builtin with a wrong number of arguments (cons with other
\* than 2, car/cdr/not with other than 1, list?/length with 0, list-ref,
\* map and filter with fewer than 2, reduce with fewer than 3, -, / and
\* begin with 0) raises SchemeEvaluationError.
C15_BuiltinArgCount ==
  [][ \A h \in BuiltinNames :
        (CalledBuiltin(h) /\ WrongCount(h, Len(ArgVals)))
        => TopOf(trace').err = "SchemeEvaluationError"
    ]_vars

SameValue(v, w) ==
  IF v.k \in {"num", "bool"} /\ w.k \in {"num", "bool"} THEN v.n = w.n ELSE v = w

\* C18: equal? returns true if and only if all of its arguments are pairwise
\* equal, for every argument sequence, the empty one and those of one
\* argument included.
C18_EqualAll ==
  [][ CalledBuiltin("equal?") =>
      LET args == ArgVals
          top == TopOf(trace')
      IN /\ top.err = "none"
         /\ top.val = BoolV(\A i, j \in 1..Len(args) : SameValue(args[i], args[j]))
    ]_vars

\* C19: list-ref on a proper list returns the element reached by walking i
\* rest-links when 0 <= i < length and raises SchemeEvaluationError for
\* every other index; on a pair that is not a proper list index 0 returns
\* the first field and every other index raises SchemeEvaluationError.
C19_ListRef ==
  [][ (CalledBuiltin("list-ref") /\ Len(ArgVals) = 2 /\ ArgVals[2].k = "num") =>
      LET lst == ArgVals[1]
          i == ArgVals[2].n
          top == TopOf(trace')
          elems == Elements(pairs', lst)
      IN /\ ProperList(pairs', lst) =>
              IF 0 <= i /\ i < Len(elems)
              THEN top.err = "none" /\ top.val = elems[i + 1]
              ELSE top.err = "SchemeEvaluationError"
         /\ (lst.k = "pair" /\ ~ProperList(pairs', lst)) =>
              IF i = 0
              THEN top.err = "none" /\ top.val = pairs'[lst.n].car
              ELSE top.err = "SchemeEvaluationError"
    ]_vars

\* C20: list? returns true exactly for the proper lists (nil, or a pair
\* whose rest is a proper list) and false for every other value; length
\* returns the number of pairs of the rest-chain of a proper list (0 for
\* nil, n for the result of list applied to n arguments) and raises
\* SchemeEvaluationError for every other value, a pair chain that ends in a
\* value other than nil included.
C20_ListLength ==
  [][ LET args == ArgVals
          top == TopOf(trace')
      IN /\ (CalledBuiltin("list?") /\ Len(args) >= 1) =>
              /\ top.err = "none"
              /\ top.val = BoolV(ProperList(pairs', args[1]))
         /\ (CalledBuiltin("length") /\ Len(args) >= 1) =>
              /\ IF ProperList(pairs', args[1])
                 THEN /\ top.err = "none"
                      /\ top.val = NumV(Len(SpineOf(pairs', args[1])))
                 ELSE top.err = "SchemeEvaluationError"
              /\ args[1] = NilV => top.val = NumV(0)
              /\ (top.tree.l[2].k = "list" /\ Len(top.tree.l[2].l) >= 1
                  /\ top.tree.l[2].l[1] = Sym("list"))
                 => top.val = NumV(Len(top.tree.l[2].l) - 1)
    ]_vars

\* C20 witness: (length p) raised SchemeEvaluationError for the pair chain
\* p that ends in 3, and (list? p) is false of such a chain.
C20_Witness ==
  /\ trace # <<>>
  /\ LET top == TopOf(trace) IN
     /\ top.tree = App("length", <<Sym("p")>>)
     /\ top.err = "SchemeEvaluationError"
     /\ Len(SpineOf(pairs, frames[1].children["p"])) = 2
     /\ ChainEnd(pairs, frames[1].children["p"]) = NumV(3)

\* C14 as stated: a define whose target is neither a symbol nor a compound
\* expression, as (define 3 4), raises SchemeEvaluationError and binds
\* nothing.
C14_DefineTargetEvaluationError ==
  [][ LET top == TopOf(trace') IN
      (IsForm(top.tree, "define", 3) /\ top.tree.l[2].k = "num")
      => /\ top.err = "SchemeEvaluationError"
         /\ frames' = frames
    ]_vars

\* C14: a define whose target is neither a symbol nor a compound expression,
\* as (define 3 4), raises SchemeSyntaxError and binds nothing: the value
\* expression is not evaluated, no frame changes and no closure is made.
C14_DefineTarget ==
  [][ LET top == TopOf(trace') IN
      (IsForm(top.tree, "define", 3) /\ top.tree.l[2].k = "num")
      => /\ top.err = "SchemeSyntaxError"
         /\ KidsOf(trace') = <<>>
         /\ frames' = frames
         /\ funcs' = funcs
    ]_vars

\* C14 witness: (define 3 (define x 8)) raised SchemeSyntaxError in a frame
\* whose chain binds x to 4, and x is still 4.
C14_Witness ==
  /\ trace # <<>>
  /\ LET top == TopOf(trace) IN
     /\ top.tree = Form3("define", Num(3), Form3("define", Sym("x"), Num(8)))
     /\ top.err = "SchemeSyntaxError"
     /\ ResolvesTo(frames, builtins, top.frame, "x", NumV(4), "none")

\* the frames without the bindings of the keywords
EraseKeywords(fr) ==
  [h \in 1..Len(fr) |->
     [parent |-> fr[h].parent,
      children |-> [m \in (DOMAIN fr[h].children) \ Keywords |-> fr[h].children[m]]]]

\* C16: special-form keywords cannot be shadowed.  When a frame of the chain
\* binds the keyword K and (K ...) is evaluated, the expression is handled
\* by the special form: K is not looked up and its binding is not applied
\* (no evaluation of the head), and the value or exception and the bindings
\* of every other name are those that the same expression gives when no
\* keyword is bound.
C16_KeywordsNotShadowed ==
  [][ LET top == TopOf(trace')
          t == top.tree
      IN (/\ t.k = "list" /\ Len(t.l) >= 1
          /\ t.l[1].k = "sym" /\ t.l[1].s \in Keywords
          /\ BinderOf(frames, top.frame, t.l[1].s) # 0
          /\ ~Mentions(Lst(Tail(t.l)), Keywords))
         => /\ \A i \in 1..Len(trace') :
                 trace'[i].depth = 1 => trace'[i].tree # t.l[1]
            /\ LET r == evaluate(t, top.frame,
                                 [Store EXCEPT !.frames = EraseKeywords(frames)], 0)
               IN /\ top.val = r.val
                  /\ top.err = r.err
                  /\ EraseKeywords(frames') = r.frames
    ]_vars

\* C16 witness: (if 1 2 3) was evaluated in a frame whose chain binds `if`
\* to a procedure, and its value is 2.
C16_Witness ==
  /\ trace # <<>>
  /\ LET top == TopOf(trace) IN
     /\ top.tree = Form4("if", Num(1), Num(2), Num(3))
     /\ BinderOf(frames, top.frame, "if") # 0
     /\ frames[BinderOf(frames, top.frame, "if")].children["if"].k = "fn"
     /\ top.err = "none"
     /\ top.val = NumV(2)
(***************************************************************************)
(* Vocabulary of the properties of map, filter and reduce.  In a step that *)
(* applies one of them to a procedure made by define or lambda, the        *)
(* entries of depth 1 that follow the head and the arguments are the       *)
(* evaluations of the procedure's body, one for every call, in the order   *)
(* of the calls, each in the frame built for that call.                    *)
(***************************************************************************)
\* the step evaluated (h e1 ... en), h is the builtin of that name and every
\* ei has a value, so that the builtin was called; the evaluations that the
\* builtin's calls of a procedure made come after these
CalledHigher(h) ==
  LET top == TopOf(trace')
      kids == KidsOf(trace')
  IN /\ top.tree.k = "list" /\ Len(top.tree.l) >= 1
     /\ top.tree.l[1] = Sym(h)
     /\ Len(kids) >= Len(top.tree.l)
     /\ \A i \in 1..Len(top.tree.l) :
          kids[i].tree = top.tree.l[i] /\ kids[i].err = "none"
     /\ kids[1].val = NativeV(h)

\* the values that map, filter or reduce was given
HigherArgs ==
  LET kids == KidsOf(trace')
  IN [i \in 1..(Len(TopOf(trace').tree.l) - 1) |-> kids[i + 1].val]

\* the evaluations of depth 1 that follow those of the head and the arguments
CallsOf ==
  LET kids == KidsOf(trace')
      m == Len(TopOf(trace').tree.l)
  IN SubSeq(kids, m + 1, Len(kids))

\* tree holds a define, set! or del whose target is one of names
RECURSIVE Assigns(_, _)
Assigns(tree, names) ==
  /\ tree.k = "list"
  /\ \/ /\ Len(tree.l) >= 2
        /\ tree.l[1].k = "sym" /\ tree.l[1].s \in {"define", "set!", "del"}
        /\ \/ tree.l[2].k = "sym" /\ tree.l[2].s \in names
           \/ /\ tree.l[2].k = "list" /\ Len(tree.l[2].l) > 0
              /\ tree.l[2].l[1].s \in names
     \/ \E i \in 1..Len(tree.l) : Assigns(tree.l[i], names)

ParamNames(fn) == {fn.param[j].s : j \in 1..Len(fn.param)}

\* calls are calls of the closure fn, each in a frame of its own that was
\* built after the one before, and all but the last returned
CallsInOrder(calls, fn) ==
  \A i \in 1..Len(calls) :
    /\ calls[i].tree = fn.body
    /\ calls[i].frame > Len(frames)
    /\ i > 1 => calls[i].frame > calls[i - 1].frame
    /\ frames'[calls[i].frame].parent = fn.frame
    /\ i < Len(calls) => calls[i].err = "none"

\* the i-th call bound the parameters of fn to the values given
CalledWith(calls, i, fn, given) ==
  ~Assigns(fn.body, ParamNames(fn))
    => \A j \in 1..Len(given) :
         frames'[calls[i].frame].children[fn.param[j].s] = given[j]

\* the elements of elems whose flag is truthy, in order
RECURSIVE Kept(_, _)
Kept(elems, flags) ==
  IF elems = <<>> THEN <<>>
  ELSE (IF Truthy(Head(flags)) THEN <<Head(elems)>> ELSE <<>>)
       \o Kept(Tail(elems), Tail(flags))

\* a new proper list of the given elements: no cell of it existed before
NewList(v, elems) ==
  /\ ProperList(pairs', v)
  /\ Elements(pairs', v) = elems
  /\ \A i \in 1..Len(SpineOf(pairs', v)) : SpineOf(pairs', v)[i] > Len(pairs)

\* the builtins that return a number, a boolean or a field and build nothing
PureBuiltins == {"+", "-", "not", "car"}

\* the values or the first exception of a pure builtin on the elements
PureResults(a, elems) ==
  [i \in 1..Len(elems) |-> CallBuiltin(a, <<elems[i]>>, Store, 0)]

\* the left fold of a pure builtin: the accumulator after i elements
RECURSIVE PureFold(_, _, _, _)
PureFold(a, seed, elems, i) ==
  IF i = 0 THEN Ok(Store, seed)
  ELSE LET before == PureFold(a, seed, elems, i - 1)
       IN IF before.err # "none" THEN before
          ELSE CallBuiltin(a, <<before.val, elems[i]>>, Store, 0)

\* the first index whose result is an exception, 0 when there is none
FirstError(results) ==
  LET bad == {i \in 1..Len(results) : results[i].err # "none"}
  IN IF bad = {} THEN 0 ELSE CHOOSE i \in bad : \A j \in bad : i <= j

\* C21, map and filter applied to the procedure func and the value LL
MapFilterContract(h, func, LL) ==
  LET top == TopOf(trace')
      calls == CallsOf
      elems == Elements(pairs, LL)
      n == Len(elems)
  IN IF ~callable(func) \/ ~ProperList(pairs, LL)
     THEN top.err = "SchemeEvaluationError" /\ calls = <<>> /\ pairs' = pairs
     ELSE
       /\ func.k = "fn" =>
            LET fn == funcs[func.n] IN
            IF Len(fn.param) # 1
            THEN /\ calls = <<>>
                 /\ IF n = 0 THEN top.err = "none" /\ top.val = NilV
                    ELSE top.err = "SchemeEvaluationError"
            ELSE /\ Len(calls) <= n
                 /\ CallsInOrder(calls, fn)
                 /\ \A i \in 1..Len(calls) : CalledWith(calls, i, fn, <<elems[i]>>)
                 /\ IF Len(calls) > 0 /\ calls[Len(calls)].err # "none"
                    THEN top.err = calls[Len(calls)].err
                    ELSE /\ Len(calls) = n
                         /\ top.err = "none"
                         /\ h = "map" =>
                              NewList(top.val, [i \in 1..n |-> calls[i].val])
                         /\ h = "filter" =>
                              NewList(top.val,
                                      Kept(elems, [i \in 1..n |-> calls[i].val]))
       /\ (func.k = "native" /\ func.s \in PureBuiltins) =>
            LET results == PureResults(func.s, elems)
                bad == FirstError(results)
            IN /\ calls = <<>>
               /\ IF bad # 0 THEN top.err = results[bad].err
                  ELSE /\ top.err = "none"
                       /\ h = "map" =>
                            NewList(top.val, [i \in 1..n |-> results[i].val])
                       /\ h = "filter" =>
                            NewList(top.val,
                                    Kept(elems, [i \in 1..n |-> results[i].val]))

\* C21, reduce applied to the procedure func, the value LL and the seed
ReduceContract(func, LL, seed) ==
  LET top == TopOf(trace')
      calls == CallsOf
      elems == Elements(pairs, LL)
      n == Len(elems)
  IN IF ~callable(func) \/ ~ProperList(pairs, LL)
     THEN top.err = "SchemeEvaluationError" /\ calls = <<>> /\ pairs' = pairs
     ELSE
       /\ n = 0 => top.err = "none" /\ top.val = seed /\ calls = <<>>
       /\ func.k = "fn" =>
            LET fn == funcs[func.n] IN
            IF Len(fn.param) # 2
            THEN /\ calls = <<>>
                 /\ n > 0 => top.err = "SchemeEvaluationError"
            ELSE /\ Len(calls) <= n
                 /\ CallsInOrder(calls, fn)
                 /\ \A i \in 1..Len(calls) :
                      CalledWith(calls, i, fn,
                                 <<IF i = 1 THEN seed ELSE calls[i - 1].val,
                                   elems[i]>>)
                 /\ IF Len(calls) > 0 /\ calls[Len(calls)].err # "none"
                    THEN top.err = calls[Len(calls)].err
                    ELSE /\ Len(calls) = n
                         /\ top.err = "none"
                         /\ n > 0 => top.val = calls[n].val
       /\ (func.k = "native" /\ func.s \in PureBuiltins) =>
            LET r == PureFold(func.s, seed, elems, n)
            IN calls = <<>> /\ top.err = r.err /\ top.val = r.val

\* C21: map, filter and reduce call the procedure on the elements of the
\* list in list order, once per element (up to the first call that raises,
\* whose exception is the outcome); map returns a new list of the results,
\* filter a new list of the elements whose result is truthy, in their
\* order, reduce the left fold from the seed (the seed itself for nil);
\* each raises SchemeEvaluationError, without a call, when the first
\* argument is not callable or the second is not a proper list; and no pair
\* that existed before is changed.
C21_MapFilterReduce ==
  [][ LET args == HigherArgs IN
      /\ \A h \in {"map", "filter"} :
           (CalledHigher(h) /\ AtomArgs /\ Len(args) >= 2)
           => MapFilterContract(h, args[1], args[2])
      /\ (CalledHigher("reduce") /\ AtomArgs /\ Len(args) >= 3)
           => ReduceContract(args[1], args[2], args[3])
      /\ (\E h \in {"map", "filter", "reduce"} : CalledHigher(h))
           => \A i \in 1..Len(pairs) : pairs'[i] = pairs[i]
    ]_vars

\* C21 witness: (map rec a) called rec on 3, 1 and 2 in that order, which
\* left k = 312, returned the list (3 31 312), and a still is (3 1 2).
C21_Witness ==
  /\ trace # <<>>
  /\ LET top == TopOf(trace) IN
     /\ top.tree = App("map", <<Sym("rec"), Sym("a")>>)
     /\ top.err = "none"
     /\ Elements(pairs, top.val) = <<NumV(3), NumV(31), NumV(312)>>
     /\ frames[1].children["k"] = NumV(312)
     /\ Elements(pairs, frames[1].children["a"]) = <<NumV(3), NumV(1), NumV(2)>>
(***************************************************************************)
(* Vocabulary of the properties of errors and of the order of evaluation   *)
(***************************************************************************)
\* the name that a define, set! or del expression assigns, "" for any other
\* expression
AssignedName(tree) ==
  IF /\ tree.k = "list" /\ Len(tree.l) >= 2
     /\ tree.l[1].k = "sym" /\ tree.l[1].s \in {"define", "set!", "del"}
  THEN IF tree.l[2].k = "sym" THEN tree.l[2].s
       ELSE IF tree.l[2].k = "list" /\ Len(tree.l[2].l) > 0 THEN tree.l[2].l[1].s
       ELSE ""
  ELSE ""

\* the first evaluation of the step that raised
FirstRaise(tr) ==
  CHOOSE i \in 1..Len(tr) :
    /\ tr[i].err # "none"
    /\ \A j \in 1..(i - 1) : tr[j].err = "none"

\* C22: no rollback on error.  When the evaluation of an expression raises,
\* the exception is that of the first evaluation that raised, handed up
\* unchanged through every enclosing evaluation, and every define or set!
\* that had returned before (and was not itself followed by another
\* assignment of the same name) still has its binding in its frame after
\* the step.
C22_NoRollback ==
  [][ LET tr == trace'
          top == TopOf(tr)
      IN top.err # "none" =>
         /\ LET i0 == FirstRaise(tr) IN
            \A j \in i0..Len(tr) :
              /\ tr[j].err = tr[i0].err
              /\ j > i0 => tr[j].depth = tr[j - 1].depth - 1
         /\ \A i \in 1..Len(tr) :
              LET e == tr[i]
                  var == AssignedName(e.tree)
              IN (/\ e.err = "none" /\ var # ""
                  /\ e.tree.l[1].s \in {"define", "set!"}
                  /\ \A j \in (i + 1)..Len(tr) :
                       ~(tr[j].err = "none" /\ AssignedName(tr[j].tree) = var))
                 => LET g == IF e.tree.l[1].s = "define" THEN e.frame
                             ELSE BinderOf(frames', e.frame, var)
                    IN /\ g # 0
                       /\ var \in DOMAIN frames'[g].children
                       /\ frames'[g].children[var] = e.val
    ]_vars

\* C22 witness: (+ (define x 2) y) raised SchemeNameError for y in a frame
\* that had no x, after its first argument had defined x; x is bound to 2.
C22_Witness ==
  /\ trace # <<>>
  /\ LET top == TopOf(trace) IN
     /\ top.tree = Form3("+", Form3("define", Sym("x"), Num(2)), Sym("y"))
     /\ top.err = "SchemeNameError"
     /\ Len(KidsOf(trace)) = 3
     /\ steps = 1
     /\ frames[top.frame].children["x"] = NumV(2)
\* the number of arguments of the step's application that were evaluated
ArgsEvaluated ==
  LET nargs == Len(TopOf(trace').tree.l) - 1
      n == Len(KidsOf(trace')) - 1
  IN IF n > nargs THEN nargs ELSE n

\* the outcome of the builtin of name a on the values vals in the heap after
\* the step, for the builtins that build nothing
OutcomeIs(a, vals, top) ==
  LET r == CallBuiltin(a, vals, [Store EXCEPT !.pairs = pairs'], 0)
  IN top.err = r.err /\ (r.err = "none" => top.val = r.val)

\* C24: a procedure application evaluates its head first, in the current
\* frame; when the head raises or its value is not callable the application
\* raises (SchemeEvaluationError for a value that is not callable) and no
\* argument expression is evaluated; otherwise the arguments are evaluated
\* one by one from left to right in the current frame, up to the first that
\* raises, a later argument sees what an earlier one defined, and only
\* after the last argument is the procedure called, with the values in that
\* order.
C24_ApplicationOrder ==
  [][ LET top == TopOf(trace')
          kids == KidsOf(trace')
          t == top.tree.l
          nargs == Len(t) - 1
          m == ArgsEvaluated
      IN IsApplication(top.tree) =>
         /\ Len(kids) >= 1
         /\ kids[1].tree = t[1] /\ kids[1].frame = top.frame
         /\ IF kids[1].err # "none"
            THEN Len(kids) = 1 /\ top.err = kids[1].err
            ELSE IF ~callable(kids[1].val)
            THEN /\ Len(kids) = 1
                 /\ top.err = "SchemeEvaluationError"
                 /\ t[1].k \in {"num", "sym"}
                      => frames' = EntryFrames /\ funcs' = funcs /\ pairs' = pairs
            ELSE
              /\ nargs > 0 => m >= 1
              /\ \A i \in 1..m :
                   /\ kids[i + 1].tree = t[i + 1]
                   /\ kids[i + 1].frame = top.frame
                   /\ i < m => kids[i + 1].err = "none"
              /\ \A i \in 1..m : \A j \in 1..(i - 1) :
                   (/\ IsForm(t[j + 1], "define", 3)
                    /\ t[j + 1].l[2].k = "sym" /\ t[j + 1].l[3].k = "num"
                    /\ t[i + 1] = t[j + 1].l[2] /\ t[i + 1] # Sym("nil")
                    /\ \A h \in (j + 1)..(i - 1) :
                         AssignedName(t[h + 1]) # t[i + 1].s)
                   => /\ kids[i + 1].err = "none"
                      /\ kids[i + 1].val = NumV(t[j + 1].l[3].n)
              /\ IF m >= 1 /\ kids[m + 1].err # "none"
                 THEN Len(kids) = m + 1 /\ top.err = kids[m + 1].err
                 ELSE LET vals == [i \in 1..nargs |-> kids[i + 1].val]
                          func == kids[1].val
                      IN /\ m = nargs
                         /\ func.k = "fn" =>
                              LET fn == funcs'[func.n] IN
                              IF Len(fn.param) # nargs
                              THEN /\ Len(kids) = nargs + 1
                                   /\ top.err = "SchemeEvaluationError"
                              ELSE /\ Len(kids) = nargs + 2
                                   /\ kids[nargs + 2].tree = fn.body
                                   /\ CalledWith(kids, nargs + 2, fn, vals)
                                   /\ top.val = kids[nargs + 2].val
                                   /\ top.err = kids[nargs + 2].err
                         /\ func.k = "native" => Len(kids) = nargs + 1
                         /\ (func.k = "native" /\ func.s \in PureBuiltins)
                              => OutcomeIs(func.s, vals, top)
                         /\ func = NativeV("list") =>
                              /\ top.err = "none"
                              /\ Elements(pairs', top.val) = vals
                         /\ (func = NativeV("begin") /\ nargs > 0) =>
                              top.err = "none" /\ top.val = vals[nargs]
    ]_vars

\* C24 witness: (1 (define x 5)) raised SchemeEvaluationError after the
\* evaluation of its head alone, and no frame of the chain binds x.
C24_Witness ==
  /\ trace # <<>>
  /\ LET top == TopOf(trace) IN
     /\ top.tree = Lst(<<Num(1), Form3("define", Sym("x"), Num(5))>>)
     /\ top.err = "SchemeEvaluationError"
     /\ Len(KidsOf(trace)) = 1
     /\ BinderOf(frames, top.frame, "x") = 0
(***************************************************************************)
(* Vocabulary of the tokenizer property.  Positions are those of the       *)
(* characters in the text, the first being 1.                              *)
(***************************************************************************)
\* the elements of a set of numbers in ascending order
RECURSIVE Ascending(_)
Ascending(S) ==
  IF S = {} THEN <<>>
  ELSE LET least == CHOOSE i \in S : \A j \in S : i <= j
       IN <<least>> \o Ascending(S \ {least})

\* the string of a sequence of characters
RECURSIVE Join(_)
Join(chars) == IF chars = <<>> THEN "" ELSE Head(chars) \o Join(Tail(chars))

\* a character that is neither whitespace nor a parenthesis
Plain(c) == c \notin Whitespace \cup {"(", ")"}

\* the lines of a text: a line starts at the first character and after every
\* line break and ends before the next line break or with the text
LinesOf(src) ==
  LET breaks == {i \in 1..Len(src) : src[i] = "\n"}
      starts == {i \in 1..Len(src) : i = 1 \/ (i - 1) \in breaks}
      EndOf(i) == IF \E b \in breaks : b >= i
                  THEN (CHOOSE b \in breaks :
                          b >= i /\ \A c \in breaks : c >= i => b <= c) - 1
                  ELSE Len(src)
      ordered == Ascending(starts)
  IN [k \in 1..Len(ordered) |-> SubSeq(src, ordered[k], EndOf(ordered[k]))]

\* the tokens of a piece of code without comment: every parenthesis, and
\* every maximal run of plain characters, in the order of their positions
CodeTokens(code) ==
  LET starts == {i \in 1..Len(code) :
                   \/ code[i] \in {"(", ")"}
                   \/ Plain(code[i]) /\ (i = 1 \/ ~Plain(code[i - 1]))}
      RunEnd(i) == CHOOSE j \in i..Len(code) :
                     /\ \A h \in i..j : Plain(code[h])
                     /\ j = Len(code) \/ ~Plain(code[j + 1])
      ordered == Ascending(starts)
  IN [k \in 1..Len(ordered) |->
        IF code[ordered[k]] \in {"(", ")"} THEN code[ordered[k]]
        ELSE Join(SubSeq(code, ordered[k], RunEnd(ordered[k])))]

\* the tokens that a line stands for: those of the code in front of the
\* first ";" and one ")" when the text behind that ";" holds a ")"
LineTokens(line) ==
  LET semis == {i \in 1..Len(line) : line[i] = ";"}
      cut == IF semis = {} THEN Len(line) + 1
             ELSE CHOOSE i \in semis : \A j \in semis : i <= j
      code == SubSeq(line, 1, cut - 1)
      comment == SubSeq(line, cut + 1, Len(line))
  IN CodeTokens(code)
     \o (IF \E i \in 1..Len(comment) : comment[i] = ")" THEN <<")">> ELSE <<>>)

\* C26: tokenize handles each line separately.  What follows the first ";"
\* of a line is dropped, except that one ")" token is added behind the
\* tokens of the line when the dropped text holds at least one ")"; in the
\* code part every "(" and ")" is a token of its own and every other token
\* is a maximal run of characters that are neither whitespace nor a
\* parenthesis; the tokens of the lines follow each other in the order of
\* the lines.
C26_Tokenize ==
  steps = 1 =>
    LET lines == LinesOf(source)
    IN tokens = Flatten([k \in 1..Len(lines) |-> LineTokens(lines[k])])

\* C26 witness: the text of four lines ";add / (+ ; this / 2 ; spans /
\* 3 ; lines)" gave the tokens ( + 2 3 ), the last from the comment.
C26_Witness ==
  /\ steps = 1
  /\ source = ExampleSource
  /\ tokens = <<"(", "+", "2", "3", ")">>
(***************************************************************************)
(* Vocabulary of the property of the read-eval-print loop                  *)
(***************************************************************************)
\* the step read a line
ReadsLine == steps' = steps + 1

\* the step read a line other than QUIT and evaluated its expression
EvaluatedLine == source' # QuitLine /\ parsed'.err = "none"

\* the exception that the line's tokenizing, parsing or evaluation raised,
\* "none" when the line has a value
LineError ==
  IF parsed'.err # "none" THEN parsed'.err ELSE TopOf(trace').err

\* the line is evaluated on the frame that repl made at its start, which
\* holds what the earlier lines bound: a line that is a name prints the
\* binding that the frame had before the line
OnePersistentFrame ==
  /\ Len(frames') >= Len(frames)
  /\ frames'[1].parent = 0
  /\ EvaluatedLine =>
       /\ TopOf(trace').frame = 1
       /\ TopOf(trace').tree = parsed'.tree
       /\ (parsed'.tree.k = "sym" /\ parsed'.tree # Sym("nil")) =>
            /\ ResolvesTo(frames, builtins, 1, parsed'.tree.s,
                          TopOf(trace').val, TopOf(trace').err)
            /\ frames' = frames
       /\ LineError = "none" =>
            /\ status' = "loop"
            /\ output' = Append(output, Printed("out", TopOf(trace').val, "none"))

\* a line that raises an exception of the Scheme taxonomy is reported and
\* the loop goes on with the frame: a line that cannot be parsed changes
\* nothing, a line without define, set! and del leaves the frame's bindings
\* as they were
SchemeErrorReported ==
  (source' # QuitLine /\ LineError \in SchemeErrors) =>
    /\ status' = "loop"
    /\ output' = Append(output, Printed("Error", NilV, LineError))
    /\ parsed'.err # "none" =>
         frames' = frames /\ funcs' = funcs /\ pairs' = pairs
    /\ (parsed'.err = "none"
        /\ ~Mentions(parsed'.tree, {"define", "set!", "del"})) =>
         frames'[1] = frames[1]

\* the loop has ended after the line exactly when the line is QUIT
EndsOnQuit == (status' # "loop") <=> (source' = QuitLine)

\* C23: the loop evaluates every line on one persistent frame, so that a
\* binding made by a line is there for the later lines; a line that raises
\* SchemeSyntaxError, SchemeNameError or SchemeEvaluationError is reported
\* and the loop goes on to the next line with the frame kept; and the loop
\* ends exactly when the line QUIT is read.
C23_Repl ==
  [][ ReadsLine =>
        OnePersistentFrame /\ SchemeErrorReported /\ EndsOnQuit ]_vars

(***************************************************************************)
(* Vocabulary of the properties of closures and frames.  The evaluations   *)
(* that an evaluation of the step made directly are the entries of depth   *)
(* one more that returned between the last entry before it of its depth or *)
(* less and itself.                                                        *)
(***************************************************************************)
\* the indices in tr of the evaluations made directly by evaluation i, in
\* the order they returned
KidsAt(tr, i) ==
  LET before == {h \in 1..(i - 1) : tr[h].depth <= tr[i].depth}
      start == IF before = {} THEN 1
               ELSE 1 + CHOOSE h \in before : \A g \in before : g <= h
      ks == {h \in start..(i - 1) : tr[h].depth = tr[i].depth + 1}
  IN [j \in 1..Cardinality(ks) |->
        CHOOSE h \in ks : Cardinality({g \in ks : g <= h}) = j]

\* the applications of the step that called a closure: the head evaluated to
\* a closure, every argument was evaluated and their number is that of the
\* parameters
Invocations(tr, fns) ==
  {i \in 1..Len(tr) :
     /\ IsApplication(tr[i].tree)
     /\ LET ks == KidsAt(tr, i)
            nargs == Len(tr[i].tree.l) - 1
        IN /\ Len(ks) > nargs
           /\ \A j \in 1..(nargs + 1) : tr[ks[j]].err = "none"
           /\ tr[ks[1]].val.k = "fn"
           /\ Len(fns[tr[ks[1]].val.n].param) = nargs}

\* the closure that invocation i called
ClosureOf(tr, fns, i) == fns[tr[KidsAt(tr, i)[1]].val.n]

\* the evaluation of the body that invocation i made
BodyOf(tr, i) == LET ks == KidsAt(tr, i) IN tr[ks[Len(ks)]]

\* the let expressions of the step whose bindings were all evaluated
Lets(tr) ==
  {i \in 1..Len(tr) :
     /\ IsForm(tr[i].tree, "let", 3)
     /\ Len(KidsAt(tr, i)) = Len(tr[i].tree.l[2].l) + 1}

\* no evaluation of the step was a define, set! or del of one of names
NoneAssigned(tr, names) ==
  \A h \in 1..Len(tr) : AssignedName(tr[h].tree) \notin names

\* C25: a closure invocation binds its parameters in a fresh frame only.
\* Every application of a closure in a step, nested and recursive ones
\* included, evaluates the body in a frame that did not exist before the
\* step, that is neither the caller's frame nor the captured frame nor the
\* frame of any other invocation or let of the step, and whose parent is the
\* captured frame.  When the step assigns none of the parameter names, that
\* frame binds each parameter to its argument at the end of the step, every
\* frame that existed before the step binds the parameter names as it did,
\* and a let frame of the step still binds them as the let did.
C25_FreshFrames ==
  [][ LET tr == trace'
          pre == EntryFrames
          inv == Invocations(tr, funcs')
      IN \A i \in inv :
           LET fn == ClosureOf(tr, funcs', i)
               ks == KidsAt(tr, i)
               nargs == Len(fn.param)
               body == BodyOf(tr, i)
               g == body.frame
               names == ParamNames(fn)
           IN /\ Len(ks) = nargs + 2
              /\ body.tree = fn.body
              /\ g > Len(pre)
              /\ g # tr[i].frame /\ g # fn.frame
              /\ \A j \in inv \ {i} : BodyOf(tr, j).frame # g
              /\ \A j \in Lets(tr) : BodyOf(tr, j).frame # g
              /\ frames'[g].parent = fn.frame
              /\ NoneAssigned(tr, names) =>
                   /\ \A p \in 1..nargs :
                        /\ fn.param[p].s \in DOMAIN frames'[g].children
                        /\ frames'[g].children[fn.param[p].s] = tr[ks[p + 1]].val
                   /\ \A h \in 1..Len(pre) : \A m \in names :
                        /\ m \in DOMAIN frames'[h].children
                             <=> m \in DOMAIN pre[h].children
                        /\ m \in DOMAIN pre[h].children =>
                             frames'[h].children[m] = pre[h].children[m]
                   /\ \A j \in Lets(tr) :
                        LET ls == KidsAt(tr, j)
                            bs == tr[j].tree.l[2].l
                            lf == BodyOf(tr, j).frame
                        IN \A b \in 1..Len(bs) :
                             (/\ bs[b].l[1].s \in names
                              /\ \A c \in (b + 1)..Len(bs) : bs[c].l[1] # bs[b].l[1])
                             => frames'[lf].children[bs[b].l[1].s] = tr[ls[b]].val
    ]_vars

\* C25 witness: (let ((k 9)) (cnt 1)) was evaluated in a frame whose chain
\* binds k to 5 in the frame that cnt captured.  The step made two
\* invocations of cnt, the second inside the first; their frames are new and
\* distinct, both have the captured frame as parent, they bind k to 1 and
\* to 0, the let frame that called cnt still binds k to 9 and the captured
\* frame still binds k to 5.
C25_Witness ==
  /\ trace # <<>>
  /\ LET top == TopOf(trace)
         inv == Invocations(trace, funcs)
     IN /\ top.tree = Form3("let", Lst(<<Lst(<<Sym("k"), Num(9)>>)>>),
                            Form2("cnt", Num(1)))
        /\ top.err = "none" /\ top.val = NumV(0)
        /\ Cardinality(inv) = 2
        /\ \E i, j \in inv :
             LET gi == BodyOf(trace, i).frame
                 gj == BodyOf(trace, j).frame
                 fn == ClosureOf(trace, funcs, i)
                 caller == trace[i].frame
             IN /\ i > j /\ gi # gj
                /\ trace[j].frame = gi
                /\ ClosureOf(trace, funcs, j) = fn
                /\ frames[gi].parent = fn.frame /\ frames[gj].parent = fn.frame
                /\ frames[gi].children["k"] = NumV(1)
                /\ frames[gj].children["k"] = NumV(0)
                /\ caller \notin {gi, gj, fn.frame}
                /\ frames[caller].children["k"] = NumV(9)
                /\ frames[fn.frame].children["k"] = NumV(5)

\* following the parent references from frame f reaches the builtin table
\* within fuel steps
RECURSIVE EndsAtBuiltins(_, _, _)
EndsAtBuiltins(fr, f, fuel) ==
  IF f = 0 THEN TRUE
  ELSE IF fuel = 0 THEN FALSE
  ELSE EndsAtBuiltins(fr, fr[f].parent, fuel - 1)

\* C27: the parent references are fixed and acyclic.  In every reachable
\* state the parent of a frame is the builtin table or a frame that was
\* created before it, so the chain from any frame reaches the builtin table
\* within as many steps as there are frames; and no step (define, set!, del,
\* let, closure invocation, in whatever frame) removes a frame or changes
\* the parent of a frame that existed before it.
C27_ParentChains ==
  /\ [](\A h \in 1..Len(frames) :
          /\ frames[h].parent \in 0..(h - 1)
          /\ EndsAtBuiltins(frames, h, Len(frames)))
  /\ [][ /\ Len(frames') >= Len(frames)
         /\ \A h \in 1..Len(frames) : frames'[h].parent = frames[h].parent ]_vars

\* C27 witness: (define x 4) was evaluated in a frame that is not the global
\* one, a frame that an earlier step created with another frame as parent;
\* it now binds x to 4, still has that parent, and its chain of two or more
\* frames ends at the builtin table.
C27_Witness ==
  /\ trace # <<>>
  /\ LET top == TopOf(trace) IN
     /\ top.tree = Form3("define", Sym("x"), Num(4))
     /\ top.err = "none"
     /\ steps = 2
     /\ frames[top.frame].parent # 0
     /\ frames[top.frame].children["x"] = NumV(4)
     /\ Len(ChainOf(frames, top.frame)) >= 2
     /\ EndsAtBuiltins(frames, top.frame, Len(frames))

\* the evaluations of the step that created a closure: a lambda expression,
\* or a define whose target is a list, that returned
Creations(tr) ==
  {i \in 1..Len(tr) :
     /\ tr[i].err = "none"
     /\ \/ IsForm(tr[i].tree, "lambda", 3)
        \/ IsForm(tr[i].tree, "define", 3) /\ tr[i].tree.l[2].k = "list"}

\* C28: a closure captures its defining frame by reference.  The closure
\* that a lambda or a define of a procedure returns records the very frame
\* in which the expression was evaluated, not a new frame.  Whenever a
\* closure is invoked, the parent of the frame of its body is that recorded
\* frame, and every name evaluated in the step whose binding the step itself
\* does not assign (the free names of a body and the procedure's own name in
\* a recursive call included) has the binding that the chain of its frame
\* holds now, whatever the chain held when the closure was created: the
\* value of the nearest binding, or SchemeNameError when the binding has
\* been deleted.
C28_CaptureByReference ==
  [][ LET tr == trace' IN
      /\ \A i \in Creations(tr) :
           /\ tr[i].val.k = "fn"
           /\ funcs'[tr[i].val.n].frame = tr[i].frame
      /\ \A i \in Invocations(tr, funcs') :
           LET fn == ClosureOf(tr, funcs', i)
               body == BodyOf(tr, i)
           IN /\ frames'[body.frame].parent = fn.frame
              /\ (/\ fn.body.k = "sym" /\ fn.body.s # "nil"
                  /\ fn.body.s \notin ParamNames(fn)
                  /\ NoneAssigned(tr, {fn.body.s}))
                 => ResolvesTo(frames', builtins', fn.frame, fn.body.s,
                               body.val, body.err)
      /\ \A h \in 1..Len(tr) :
           (/\ tr[h].tree.k = "sym" /\ tr[h].tree.s # "nil"
            /\ NoneAssigned(tr, {tr[h].tree.s}))
           => ResolvesTo(frames', builtins', tr[h].frame, tr[h].tree.s,
                         tr[h].val, tr[h].err)
    ]_vars

\* C28 witness: the closure f, whose body is the free name x, was created by
\* the file in the global frame when that frame bound x to 1; an expression
\* evaluated since changed the binding of x in the global frame, and the
\* call (f) of the last step returned the 4 or 5 that the frame binds now.
C28_Witness ==
  /\ trace # <<>>
  /\ LET top == TopOf(trace)
         g == BinderOf(frames, top.frame, "f")
     IN /\ top.tree = Call1(Sym("f"))
        /\ top.err = "none"
        /\ g = 1
        /\ frames[1].children["f"] = FnV(1)
        /\ funcs[1] = [body |-> Sym("x"), param |-> <<>>, frame |-> 1]
        /\ "x" \in DOMAIN frames[1].children
        /\ frames[1].children["x"] \in {NumV(4), NumV(5)}
        /\ top.val = frames[1].children["x"]

\* C30: nil is the empty list whatever the frames bind.  Every evaluation of
\* the symbol nil in a step, at the top or inside a let or a closure body,
\* in a frame whose chain binds the name nil or not, returns the empty list
\* without raising, and leaves the frames as they are when it is the step's
\* own expression.
C30_NilIsEmptyList ==
  [][ LET tr == trace' IN
      /\ \A h \in 1..Len(tr) :
           tr[h].tree = Sym("nil") => tr[h].err = "none" /\ tr[h].val = NilV
      /\ TopOf(tr).tree = Sym("nil") => frames' = frames
    ]_vars

\* the evaluations of nil of the last step that were made in a frame whose
\* chain binds the name nil to the number n
NilBoundTo(n) ==
  {h \in 1..Len(trace) :
     /\ trace[h].tree = Sym("nil")
     /\ BinderOf(frames, trace[h].frame, "nil") # 0
     /\ frames[BinderOf(frames, trace[h].frame, "nil")].children["nil"] = NumV(n)}

\* C30 witness: after (define nil 5), in a frame that binds nil to 5 itself,
\* one of the three expressions nil, (let ((nil 3)) nil) and
\* ((lambda (nil) nil) 7) returned the empty list: its symbol nil was
\* evaluated in a frame that binds nil to 5, to 3 or to 7.
C30_Witness ==
  /\ trace # <<>>
  /\ LET top == TopOf(trace) IN
     /\ top.err = "none" /\ top.val = NilV
     /\ "nil" \in DOMAIN frames[top.frame].children
     /\ frames[top.frame].children["nil"] = NumV(5)
     /\ \/ top.tree = Sym("nil") /\ NilBoundTo(5) # {}
        \/ top.tree.k = "list" /\ top.tree.l[1] = Sym("let") /\ NilBoundTo(3) # {}
        \/ top.tree.k = "list" /\ top.tree.l[1].k = "list" /\ NilBoundTo(7) # {}

(***************************************************************************)
(* Vocabulary of the properties of the pair heap.                          *)
(***************************************************************************)
\* the cells that the first and rest fields of cell i refer to
FieldsOf(ps, i) ==
  {v.n : v \in {w \in {ps[i].car, ps[i].cdr} : w.k = "pair"}}

\* following the rest fields from v reaches a value that is not a pair within
\* fuel steps
RECURSIVE RestWalkEnds(_, _, _)
RestWalkEnds(ps, v, fuel) ==
  IF v.k # "pair" THEN TRUE
  ELSE IF fuel = 0 THEN FALSE
  ELSE RestWalkEnds(ps, ps[v.n].cdr, fuel - 1)

\* the pairs bound in the frames and everything reachable from them
BoundPairs ==
  ReachFrom(pairs,
            UNION {{frames[h].children[m].n :
                      m \in {k \in DOMAIN frames[h].children :
                               frames[h].children[k].k = "pair"}} :
                   h \in 1..Len(frames)})

\* C29: pairs are never changed once built, and pair structures are
\* acyclic.  No step (cons, list, append, map, filter, car, cdr, list?,
\* length, list-ref on pairs that the frames hold) removes a pair or changes
\* the first or rest field of a pair that existed before the step; and in
\* every reachable state no pair is reachable from its own fields, so the
\* walk along the rest fields that list?, length and list-ref make ends
\* within as many steps as there are pairs, from every pair.
C29_PairsImmutable ==
  /\ [](\A i \in 1..Len(pairs) :
          /\ i \notin ReachFrom(pairs, FieldsOf(pairs, i))
          /\ RestWalkEnds(pairs, PairV(i), Len(pairs)))
  /\ [][ /\ Len(pairs') >= Len(pairs)
         /\ \A i \in 1..Len(pairs) : pairs'[i] = pairs[i] ]_vars

\* C29 witness: (define a (append a a)) was evaluated when a was the list
\* (3 1 2) of the file, whose first cell is the third pair of the heap.  a
\* is now a list of six elements made of cells that did not exist before,
\* and the old cells, which n still holds as its second element, are the
\* list (3 1 2) as before.
C29_Witness ==
  /\ trace # <<>>
  /\ LET top == TopOf(trace)
         a == frames[1].children["a"]
         n == frames[1].children["n"]
     IN /\ top.tree = Form3("define", Sym("a"), Form3("append", Sym("a"), Sym("a")))
        /\ top.err = "none"
        /\ a.k = "pair" /\ {a.n, 3} \subseteq BoundPairs
        /\ Elements(pairs, a) = <<NumV(3), NumV(1), NumV(2), NumV(3), NumV(1), NumV(2)>>
        /\ \A i \in 1..Len(SpineOf(pairs, a)) : SpineOf(pairs, a)[i] > 3
        /\ Elements(pairs, n) = <<NumV(1), PairV(3)>>
        /\ Elements(pairs, PairV(3)) = <<NumV(3), NumV(1), NumV(2)>>
====
